---- MODULE Spec2Model ----
(***************************************************************************)
(* A model of the preference-driven recommendation core of the retail      *)
(* assistant: the preference merge (main.py, conversation_engine.py), the  *)
(* chat turn handler and its session store (main.py), and the tiered       *)
(* recommenders (rag_system.py, vector_db.py, main.py).                    *)
(*                                                                         *)
(* Python strings are sequences of one-character strings, so that strip,   *)
(* lower, startswith and the substring test are computed as Python         *)
(* computes them.  A preference value is None, a string or a number.       *)
(***************************************************************************)
EXTENDS Integers, Sequences, FiniteSets, TLC

VARIABLES
    redis_connected,            \* main.py: redis_client and redis_client.is_connected()
    rag_available,              \* main.py: ENHANCED_FEATURES_AVAILABLE and rag_system_instance and vector_db_instance
    SESSIONS_STORE,             \* main.py: the in-memory session map
    redis_sessions,             \* cache.py: the session:<id> keys
    CONVERSATION_HISTORY_LOG,   \* main.py: the in-memory history list
    redis_history,              \* cache.py: the history:<id> lists
    usedIds,                    \* every session id uuid4 has produced so far
    turns,                      \* number of requests handled so far
    resp,                       \* the last response and what the turn did
    pure                        \* harness of the pure-function specifications

vars == <<redis_connected, rag_available, SESSIONS_STORE, redis_sessions,
          CONVERSATION_HISTORY_LOG, redis_history, usedIds, turns, resp, pure>>

chatVars == <<redis_connected, rag_available, SESSIONS_STORE, redis_sessions,
              CONVERSATION_HISTORY_LOG, redis_history, usedIds, turns, resp>>

----------------------------------------------------------------------------
(* Python strings *)

UpperChars == <<"A","B","C","D","E","F","G","H","I","J","K","L","M",
                "N","O","P","Q","R","S","T","U","V","W","X","Y","Z">>

LowerChars == <<"a","b","c","d","e","f","g","h","i","j","k","l","m",
                "n","o","p","q","r","s","t","u","v","w","x","y","z">>

LowerChar(c) ==
    IF \E i \in 1..Len(UpperChars) : UpperChars[i] = c
    THEN LowerChars[CHOOSE i \in 1..Len(UpperChars) : UpperChars[i] = c]
    ELSE c

\* str.lower()
Lower(s) == [i \in 1..Len(s) |-> LowerChar(s[i])]

IsSpace(c) == c = " "

\* str.strip()
Strip(s) ==
    IF \A i \in 1..Len(s) : IsSpace(s[i]) THEN <<>>
    ELSE LET first == CHOOSE i \in 1..Len(s) :
                          ~IsSpace(s[i]) /\ \A j \in 1..(i-1) : IsSpace(s[j])
             last  == CHOOSE i \in 1..Len(s) :
                          ~IsSpace(s[i]) /\ \A j \in (i+1)..Len(s) : IsSpace(s[j])
         IN  SubSeq(s, first, last)

\* sub in s
Contains(s, sub) ==
    \E i \in 0..(Len(s) - Len(sub)) : SubSeq(s, i + 1, i + Len(sub)) = sub

\* s.startswith(p)
StartsWith(s, p) == Len(p) <= Len(s) /\ SubSeq(s, 1, Len(p)) = p

\* s.replace(p, "") for a prefix p that occurs once, at the start
DropPrefix(s, p) == SubSeq(s, Len(p) + 1, Len(s))

Digits == <<"0","1","2","3","4","5","6","7","8","9">>

RECURSIVE IntStr(_)
IntStr(n) == IF n < 10 THEN <<Digits[n + 1]>>
             ELSE IntStr(n \div 10) \o <<Digits[(n % 10) + 1]>>

\* str(x) of a float holding a whole number
FloatStr(n) == IntStr(n) \o <<".", "0">>

s_empty == <<>>
s_space == <<" ">>
s_null == <<"n","u","l","l">>
s_NULL == <<"N","U","L","L">>
s_null_padded == <<" ","n","u","l","l"," ">>
s_none == <<"n","o","n","e">>
s_ring == <<"r","i","n","g">>
s_Ring == <<"R","i","n","g">>
s_necklace == <<"n","e","c","k","l","a","c","e">>
s_earring == <<"e","a","r","r","i","n","g">>
s_earrings == <<"e","a","r","r","i","n","g","s">>
s_bracelet == <<"b","r","a","c","e","l","e","t">>
s_gold == <<"g","o","l","d">>
s_Gold == <<"G","o","l","d">>
s_white_gold == <<"w","h","i","t","e"," ","g","o","l","d">>
s_silver == <<"s","i","l","v","e","r">>
s_diamond == <<"d","i","a","m","o","n","d">>
s_solitaire == <<"s","o","l","i","t","a","i","r","e">>
s_hoop == <<"h","o","o","p">>
s_elegant == <<"e","l","e","g","a","n","t">>
s_wedding == <<"w","e","d","d","i","n","g">>
s_wife == <<"w","i","f","e">>

----------------------------------------------------------------------------
(* Preference values and the slot schema *)

None == [t |-> "None"]
Str(s) == [t |-> "str", s |-> s]
Num(n) == [t |-> "num", n |-> n]
Bool(b) == [t |-> "bool", b |-> b]

\* Python truthiness: bool(v)
Truthy(v) ==
    CASE v.t = "None" -> FALSE
      [] v.t = "str"  -> Len(v.s) > 0
      [] v.t = "num"  -> v.n # 0
      [] v.t = "bool" -> v.b

\* str(v) of a value that is not None
PyStr(v) ==
    CASE v.t = "str"  -> v.s
      [] v.t = "num"  -> FloatStr(v.n)
      [] v.t = "bool" -> IF v.b THEN <<"T","r","u","e">> ELSE <<"F","a","l","s","e">>
      [] v.t = "None" -> <<"N","o","n","e">>

\* main.py: ALL_PREFERENCE_KEYS, the fields of ExtractedPreferences
ALL_PREFERENCE_KEYS ==
    <<"occasion", "recipient", "category", "metal",
      "design_type", "style", "budget_max", "gemstone">>

Slots == {ALL_PREFERENCE_KEYS[i] : i \in 1..Len(ALL_PREFERENCE_KEYS)}

GENERIC_FLAG == "user_query_was_generic_show_all"

\* {key: None for key in ALL_PREFERENCE_KEYS}
EmptyPrefs == [k \in Slots |-> None]

\* dict.get(key) with the default None
Get(d, k) == IF k \in DOMAIN d THEN d[k] ELSE None

\* d with d[k] = v, k a new or an existing key
Put(d, k, v) == [x \in DOMAIN d \cup {k} |-> IF x = k THEN v ELSE d[x]]

----------------------------------------------------------------------------
(* The preference merge *)

\* main.py: the first condition of the merge loop: the slot is present with a real value
SetsSlot(D, key) ==
    /\ key \in DOMAIN D
    /\ D[key] # None
    /\ Strip(PyStr(D[key])) # s_empty
    /\ Lower(PyStr(D[key])) # s_null

\* main.py: the second condition of the merge loop: the slot is present as None or "null"
ClearsSlot(D, key) ==
    /\ key \in DOMAIN D
    /\ (D[key] = None \/ Lower(PyStr(D[key])) = s_null)

\* a faulty merge: a slot the delta clears is removed from the map instead of
\* being set to null
MergeDroppingCleared(current_prefs, new_prefs_dict) ==
    [key \in {k \in DOMAIN current_prefs \cup Slots :
                k \notin Slots \/ SetsSlot(new_prefs_dict, k)
                               \/ ~ClearsSlot(new_prefs_dict, k)} |->
        IF key \in Slots /\ SetsSlot(new_prefs_dict, key) THEN new_prefs_dict[key]
        ELSE IF key \notin DOMAIN current_prefs THEN None
        ELSE current_prefs[key]]

\* a faulty merge: a null in the delta leaves the slot as it was
MergeIgnoringNulls(current_prefs, new_prefs_dict) ==
    [key \in DOMAIN current_prefs \cup Slots |->
        IF key \notin Slots THEN current_prefs[key]
        ELSE IF SetsSlot(new_prefs_dict, key) THEN new_prefs_dict[key]
        ELSE IF key \notin DOMAIN current_prefs THEN None
        ELSE current_prefs[key]]

\* main.py: the loop of update_session_preferences over ALL_PREFERENCE_KEYS
MergePreferences(current_prefs, new_prefs_dict) ==
    [key \in DOMAIN current_prefs \cup Slots |->
        IF key \notin Slots THEN current_prefs[key]
        ELSE IF SetsSlot(new_prefs_dict, key) THEN new_prefs_dict[key]
        ELSE IF ClearsSlot(new_prefs_dict, key) THEN None
        ELSE IF key \notin DOMAIN current_prefs THEN None
        ELSE current_prefs[key]]

\* conversation_engine.py: update_preferences assigns the slot (to the value or to None)
EngineAssignsSlot(new_preferences, key) ==
    /\ key \in Slots
    /\ key \in DOMAIN new_preferences
    /\ \/ new_preferences[key] = None
       \/ Strip(PyStr(new_preferences[key])) # s_empty

\* conversation_engine.py: the loop of update_preferences over self.preference_keys
EngineMergePreferences(preferences, new_preferences) ==
    [key \in DOMAIN preferences \cup {k \in Slots : EngineAssignsSlot(new_preferences, k)} |->
        IF EngineAssignsSlot(new_preferences, key)
        THEN new_preferences[key]
        ELSE preferences[key]]

----------------------------------------------------------------------------
(* The product catalog and the recommenders *)

Product(id, category, price, metal, gemstones, design_type, style, occasion, recipient) ==
    [id |-> id, category |-> category, price |-> price, metal |-> metal,
     gemstones |-> gemstones, design_type |-> design_type, style_tags |-> style,
     occasion_tags |-> occasion, recipient_tags |-> recipient]

\* main.py: PRODUCT_CATALOG_DB as load_products_from_json left it (the catalog file is data)
PRODUCT_CATALOG_DB ==
    << Product(<<"p","1">>, s_ring, 1800, s_gold, <<s_diamond>>, s_solitaire,
               <<s_elegant>>, <<s_wedding>>, <<s_wife>>),
       Product(<<"p","2">>, s_ring, 500, s_silver, <<s_none>>, s_solitaire,
               <<>>, <<>>, <<>>),
       Product(<<"P","3">>, s_Ring, 2500, s_white_gold, <<s_diamond>>, s_solitaire,
               <<s_elegant>>, <<s_wedding>>, <<>>),
       Product(<<"p","4">>, s_earrings, 300, s_gold, <<s_none>>, s_hoop,
               <<s_elegant>>, <<>>, <<s_wife>>),
       Product(<<"p","5">>, s_necklace, 900, s_gold, <<s_diamond>>, s_solitaire,
               <<>>, <<s_wedding>>, <<s_wife>>),
       Product(<<"p","6">>, s_ring, 500, s_gold, <<s_none>>, s_solitaire,
               <<>>, <<>>, <<>>) >>

ProductIndexes == 1..Len(PRODUCT_CATALOG_DB)

\* the members of a list, lower-cased: [x.lower() for x in xs]
LowerAll(xs) == {Lower(xs[i]) : i \in 1..Len(xs)}

\* main.py: the preferences other than category (and the flag) that are truthy
OtherTruthyPrefs(preferences) ==
    {k \in DOMAIN preferences :
        Truthy(preferences[k]) /\ k # "category" /\ k # GENERIC_FLAG}

\* main.py: the points _calculate_match_score adds for one string slot
SlotPoints(cond, points) == IF cond THEN points ELSE 0

\* a faulty scorer: a category mismatch only loses the category points instead of
\* zeroing the score
ScoreWithoutCategoryGate(product, preferences) ==
    SlotPoints(Truthy(Get(preferences, "category"))
                  /\ Lower(product.category) = Lower(Get(preferences, "category").s), 100)
    + SlotPoints(Truthy(Get(preferences, "metal"))
                  /\ Contains(Lower(product.metal), Lower(Get(preferences, "metal").s)), 20)
    + SlotPoints(Get(preferences, "budget_max") # None
                  /\ product.price <= Get(preferences, "budget_max").n, 20)

\* main.py: JewelleryRecommender._calculate_match_score
CalculateMatchScore(product, preferences) ==
    LET category_pref == Get(preferences, "category")
        cat_set   == Truthy(category_pref)
        cat_match == cat_set /\ Lower(product.category) = Lower(category_pref.s)
        only_cat  == cat_set /\ OtherTruthyPrefs(preferences) = {}
        metal     == Get(preferences, "metal")
        gem       == Get(preferences, "gemstone")
        style     == Get(preferences, "style")
        design    == Get(preferences, "design_type")
        occasion  == Get(preferences, "occasion")
        recipient == Get(preferences, "recipient")
        budget    == Get(preferences, "budget_max")
        metal_hit == Truthy(metal) /\ Contains(Lower(product.metal), Lower(metal.s))
        gem_hit   == Truthy(gem) /\ Lower(gem.s) # s_none
                        /\ Lower(gem.s) \in LowerAll(product.gemstones)
        none_hit  == Truthy(gem) /\ Lower(gem.s) = s_none
                        /\ s_none \in LowerAll(product.gemstones)
        style_hit == Truthy(style) /\ Lower(style.s) \in LowerAll(product.style_tags)
        design_hit == Truthy(design) /\ Lower(product.design_type) = Lower(design.s)
        occ_hit   == Truthy(occasion) /\ Lower(occasion.s) \in LowerAll(product.occasion_tags)
        rec_hit   == Truthy(recipient) /\ Lower(recipient.s) \in LowerAll(product.recipient_tags)
        bud_hit   == budget # None /\ product.price <= budget.n
        bud_near  == bud_hit /\ product.price * 10 >= budget.n * 7
        matched   == cat_match \/ metal_hit \/ gem_hit \/ none_hit \/ style_hit
                        \/ design_hit \/ occ_hit \/ rec_hit \/ bud_hit
        score     == SlotPoints(cat_match, 100) + SlotPoints(metal_hit, 20)
                        + SlotPoints(gem_hit, 30) + SlotPoints(none_hit, 10)
                        + SlotPoints(style_hit, 15) + SlotPoints(design_hit, 10)
                        + SlotPoints(occ_hit, 10) + SlotPoints(rec_hit, 5)
                        + SlotPoints(bud_hit, 20) + SlotPoints(bud_near, 5)
    IN  IF cat_set /\ ~cat_match THEN 0
        ELSE IF only_cat THEN 50
        ELSE IF DOMAIN preferences = {} \/ (~matched /\ ~only_cat) THEN 0
        ELSE score

\* lexicographic order of two-number sort keys
KeyLess(a, b) == a[1] < b[1] \/ (a[1] = b[1] /\ a[2] < b[2])

RECURSIVE InsertAsc(_, _)
InsertAsc(sorted, x) ==
    IF sorted = <<>> THEN <<x>>
    ELSE IF KeyLess(x.k, Head(sorted).k) THEN <<x>> \o sorted
    ELSE <<Head(sorted)>> \o InsertAsc(Tail(sorted), x)

\* list.sort(key=...): stable, ascending
RECURSIVE SortAsc(_)
SortAsc(xs) ==
    IF xs = <<>> THEN <<>>
    ELSE InsertAsc(SortAsc(SubSeq(xs, 1, Len(xs) - 1)), xs[Len(xs)])

RECURSIVE InsertDesc(_, _)
InsertDesc(sorted, x) ==
    IF sorted = <<>> THEN <<x>>
    ELSE IF KeyLess(Head(sorted).k, x.k) THEN <<x>> \o sorted
    ELSE <<Head(sorted)>> \o InsertDesc(Tail(sorted), x)

\* a faulty sort: the list is left in catalog order
Unsorted(xs) == xs

\* list.sort(key=..., reverse=True): stable, descending
RECURSIVE SortDesc(_)
SortDesc(xs) ==
    IF xs = <<>> THEN <<>>
    ELSE InsertDesc(SortDesc(SubSeq(xs, 1, Len(xs) - 1)), xs[Len(xs)])

\* xs[:n]
Take(xs, n) == SubSeq(xs, 1, IF Len(xs) < n THEN Len(xs) ELSE n)

\* the subsequence of xs whose members satisfy Keep
RECURSIVE SelectIdx(_, _)
SelectIdx(idxs, keep) ==
    IF idxs = <<>> THEN <<>>
    ELSE (IF Head(idxs) \in keep THEN <<Head(idxs)>> ELSE <<>>) \o SelectIdx(Tail(idxs), keep)

CatalogOrder == [i \in ProductIndexes |-> i]

\* main.py: recommend_products takes the broad branch
IsBroadCategorySearch(preferences) ==
    /\ GENERIC_FLAG \in DOMAIN preferences
    /\ Truthy(preferences[GENERIC_FLAG])
    /\ Truthy(Get(preferences, "category"))

\* main.py: the broad branch of recommend_products (Tier 3); catalog indexes
BroadCategoryResults(preferences, top_n) ==
    LET category_pref == Get(preferences, "category")
        keep == {i \in ProductIndexes :
                    Lower(PRODUCT_CATALOG_DB[i].category) = Lower(category_pref.s)}
        results == SelectIdx(CatalogOrder, keep)
        keyed == [j \in 1..Len(results) |->
                    [k |-> <<PRODUCT_CATALOG_DB[results[j]].price, 0>>, v |-> results[j]]]
        sorted == SortAsc(keyed)
    IN  Take([j \in 1..Len(sorted) |-> sorted[j].v], top_n)

\* main.py: the filter of the scored loop of recommend_products
PassesScoredFilter(i, preferences) ==
    LET product == PRODUCT_CATALOG_DB[i]
        budget_max_pref == Get(preferences, "budget_max")
        category_pref == Get(preferences, "category")
    IN  /\ ~(budget_max_pref # None /\ product.price > budget_max_pref.n)
        /\ ~(Truthy(category_pref)
                /\ Lower(product.category) # Lower(category_pref.s))
        /\ CalculateMatchScore(product, preferences) > 0

\* main.py: the scored branch of recommend_products (Tier 2); catalog indexes
ScoredResults(preferences, top_n) ==
    LET keep == {i \in ProductIndexes : PassesScoredFilter(i, preferences)}
        scored == SelectIdx(CatalogOrder, keep)
        keyed == [j \in 1..Len(scored) |->
                    [k |-> <<CalculateMatchScore(PRODUCT_CATALOG_DB[scored[j]], preferences),
                             0 - PRODUCT_CATALOG_DB[scored[j]].price>>,
                     v |-> scored[j]]]
        sorted == SortDesc(keyed)
    IN  Take([j \in 1..Len(sorted) |-> sorted[j].v], top_n)

\* main.py: JewelleryRecommender.recommend_products; catalog indexes, and the branch taken
RecommendProducts(preferences, top_n) ==
    IF Len(PRODUCT_CATALOG_DB) = 0 THEN [tier |-> "none", items |-> <<>>]
    ELSE IF IsBroadCategorySearch(preferences)
    THEN [tier |-> "tier3", items |-> BroadCategoryResults(preferences, top_n)]
    ELSE [tier |-> "tier2", items |-> ScoredResults(preferences, top_n)]

----------------------------------------------------------------------------
(* Tier 1: the vector index behind RAGSystem.retrieve_relevant_products *)

\* rag_system.py: RAGSystem.min_similarity_threshold, in tenths
MinSimilarityThreshold == 5

\* main.py: the top_k and top_n chat_endpoint passes to both recommenders
TopN == 5

\* vector_db.py: the where clause hybrid_search and semantic_search build from the preferences
WhereMatches(i, preferences) ==
    LET product == PRODUCT_CATALOG_DB[i]
        category == Get(preferences, "category")
        metal == Get(preferences, "metal")
        budget_max == Get(preferences, "budget_max")
    IN  /\ Truthy(category) => product.category = category.s
        /\ Truthy(metal) => product.metal = metal.s
        /\ Truthy(budget_max) => product.price <= budget_max.n

\* vector_db.py: semantic_search: the top_k nearest products that satisfy the where
\* clause, nearest first; similarity[i] is 1 - distance of product i, in tenths
SemanticSearch(preferences, similarity, top_k) ==
    LET keep == {i \in ProductIndexes : WhereMatches(i, preferences)}
        hits == SelectIdx(CatalogOrder, keep)
        keyed == [j \in 1..Len(hits) |-> [k |-> <<similarity[hits[j]], 0>>, v |-> hits[j]]]
        sorted == SortDesc(keyed)
    IN  Take([j \in 1..Len(sorted) |-> sorted[j].v], top_k)

\* vector_db.py: the products semantic_search returns, each with its similarity_score
Candidates(preferences, similarity, top_k) ==
    LET hits == SemanticSearch(preferences, similarity, top_k)
    IN  [j \in 1..Len(hits) |->
            [k \in {"index", "similarity_score"} |->
                IF k = "index" THEN hits[j] ELSE similarity[hits[j]]]]

\* rag_system.py: product.get('similarity_score', 0)
SimilarityScoreOf(product) ==
    IF "similarity_score" \in DOMAIN product THEN product["similarity_score"] ELSE 0

\* a faulty filter: a product without a similarity score is let through
FilterKeepingUnscored(products) ==
    SelectSeq(products,
              LAMBDA product : "similarity_score" \notin DOMAIN product
                               \/ product["similarity_score"] >= MinSimilarityThreshold)

\* rag_system.py: the list comprehension "Filter by similarity threshold"
FilterBySimilarityThreshold(products) ==
    SelectSeq(products, LAMBDA product : SimilarityScoreOf(product) >= MinSimilarityThreshold)

\* rag_system.py: RAGSystem.retrieve_relevant_products; catalog indexes
RetrieveRelevantProducts(preferences, similarity, top_k) ==
    LET filtered_products ==
            FilterBySimilarityThreshold(Candidates(preferences, similarity, top_k))
    IN  [j \in 1..Len(filtered_products) |-> filtered_products[j]["index"]]

----------------------------------------------------------------------------
(* The session store and the conversation history (main.py, cache.py) *)

\* the most sessions uuid4 is asked for in one behaviour
MaxSessions == 2

\* the most requests handled in one behaviour
MaxTurns == 2

SessionIds == 1..MaxSessions

\* UserInput.session_id = None
NoId == 0

\* main.py: the session get_or_create_session creates
NewSessionData ==
    [k \in {"current_conversational_state", "preferences", "last_shown_product_ids"} |->
        CASE k = "current_conversational_state" -> "initial_greeting"
          [] k = "preferences" -> EmptyPrefs
          [] k = "last_shown_product_ids" -> <<>>]

\* a dict with no key
EmptyDict == <<>>

\* uuid.uuid4(): an id no session had before
FreshId(used) ==
    CHOOSE id \in SessionIds \ used : \A o \in SessionIds \ used : id <= o

\* the store the code reads and writes: Redis when connected, else SESSIONS_STORE
Store(w) == IF redis_connected THEN w.R ELSE w.S

WithStore(w, st) == IF redis_connected THEN [w EXCEPT !.R = st] ELSE [w EXCEPT !.S = st]

\* main.py: get_session_data
GetSessionData(w, session_id) ==
    IF session_id \in DOMAIN Store(w) THEN Store(w)[session_id] ELSE EmptyDict

\* a faulty lookup: the id the client sent is ignored and every turn gets a new session
GetOrCreateAlwaysNew(w, session_id_str, used) ==
    [sid |-> FreshId(used),
     w |-> WithStore(w, Put(Store(w), FreshId(used), NewSessionData)),
     created |-> TRUE,
     used |-> used \cup {FreshId(used)}]

\* main.py: get_or_create_session
GetOrCreateSession(w, session_id_str, used) ==
    IF session_id_str # NoId /\ session_id_str \in DOMAIN Store(w)
    THEN [sid |-> session_id_str, w |-> w, created |-> FALSE, used |-> used]
    ELSE LET new_id == FreshId(used)
         IN  [sid |-> new_id,
              w |-> WithStore(w, Put(Store(w), new_id, NewSessionData)),
              created |-> TRUE,
              used |-> used \cup {new_id}]

\* main.py: update_session_preferences
UpdateSessionPreferences(w, session_id, new_prefs_dict) ==
    LET session_data ==
            IF session_id \in DOMAIN Store(w) THEN Store(w)[session_id]
            ELSE IF redis_connected THEN NewSessionData
            ELSE [k \in {"preferences"} |-> EmptyPrefs]
        current_prefs ==
            IF "preferences" \in DOMAIN session_data THEN session_data["preferences"]
            ELSE EmptyDict
        merged == MergePreferences(current_prefs, new_prefs_dict)
    IN  WithStore(w, Put(Store(w), session_id, Put(session_data, "preferences", merged)))

\* main.py: session[field] = value, as chat_endpoint writes the state and the
\* last shown ids (with Redis: only when the session is found)
SetSessionField(w, session_id, field, value) ==
    IF session_id \in DOMAIN Store(w)
    THEN WithStore(w, Put(Store(w), session_id, Put(Store(w)[session_id], field, value)))
    ELSE w

\* main.py: log_to_conversation_history (cache.py: add_to_conversation_history)
LogToConversationHistory(w, session_id, role, content, preferences_at_turn) ==
    LET snapshot == IF preferences_at_turn = None \/ DOMAIN preferences_at_turn = {}
                    THEN EmptyDict ELSE preferences_at_turn
    IN  IF redis_connected
        THEN [w EXCEPT !.RH =
                Put(w.RH, session_id,
                    Append(IF session_id \in DOMAIN w.RH THEN w.RH[session_id] ELSE <<>>,
                           [role |-> role, content |-> content,
                            preferences_at_turn |-> snapshot]))]
        ELSE [w EXCEPT !.H =
                Append(w.H, [session_id |-> session_id, role |-> role,
                             content |-> content, preferences_at_turn |-> snapshot])]

----------------------------------------------------------------------------
(* The LLM collaborator (main.py: get_llm_structured_response) *)

\* main.py: LLMStructuredOutput.validate_next_action
AllowedActions == {"ask_question", "recommend_products", "offer_staff_handoff"}

\* main.py: LLMStructuredOutput.validate_confidence_score
AllowedScores == {"high", "medium", "low"}

\* the collaborator's answer: raw text that is not JSON, an API error or timeout,
\* or a JSON object
LLMJsonError == [kind |-> "json_error"]
LLMApiError == [kind |-> "api_error"]
LLMPayload(extracted, state, action, confidence) ==
    [kind |-> "payload", extracted_preferences |-> extracted,
     current_conversational_state |-> state, next_action |-> action,
     confidence_score |-> confidence]

\* no collaborator call in this turn
NoLLM == [kind |-> "not_called"]

\* a faulty validation: any JSON object passes, whatever its action and confidence
AcceptsAnyPayload(llm) == llm.kind = "payload"

\* main.py: LLMStructuredOutput.model_validate succeeds
ValidatesAsLLMStructuredOutput(llm) ==
    /\ llm.kind = "payload"
    /\ llm.next_action \in AllowedActions
    /\ llm.confidence_score \in AllowedScores

\* main.py: validated_output.extracted_preferences.model_dump(exclude_none=True)
ModelDumpExcludeNone(extracted) ==
    [k \in {x \in DOMAIN extracted : extracted[x] # None} |-> extracted[k]]

\* main.py: the error_reply of each except clause
ErrorReply(llm) ==
    CASE llm.kind = "json_error" -> "I seem to have gotten my wires crossed"
      [] llm.kind = "payload"    -> "I'm having a bit of trouble understanding the details"
      [] llm.kind = "api_error"  -> "I'm experiencing a technical difficulty right now"

\* main.py: get_llm_structured_response, with an initialised Groq client
GetLLMStructuredResponse(w, session_id, user_message, llm) ==
    LET current_session_data == GetSessionData(w, session_id)
        current_preferences ==
            IF "preferences" \in DOMAIN current_session_data
            THEN current_session_data["preferences"] ELSE EmptyPrefs
    IN  IF ValidatesAsLLMStructuredOutput(llm)
        THEN LET extracted_prefs_this_turn == ModelDumpExcludeNone(llm.extracted_preferences)
                 w1 == UpdateSessionPreferences(w, session_id, extracted_prefs_this_turn)
                 after == Get(GetSessionData(w1, session_id), "preferences")
                 \* current_preferences is the stored dict itself in memory (a shallow
                 \* copy of the session), which the merge has just changed in place;
                 \* with Redis it is a parsed copy
                 logged == IF redis_connected \/ session_id \notin DOMAIN Store(w)
                           THEN current_preferences ELSE after
                 w2 == LogToConversationHistory(w1, session_id, "user", user_message, logged)
                 w3 == LogToConversationHistory(w2, session_id, "assistant", "LLM dialogue_response", after)
             IN  [w |-> w3, reply |-> "LLM dialogue_response", error |-> FALSE,
                  current_conversational_state |-> llm.current_conversational_state,
                  next_action |-> llm.next_action,
                  merged |-> extracted_prefs_this_turn]
        ELSE LET w1 == LogToConversationHistory(w, session_id, "user", user_message,
                                                current_preferences)
                 w2 == LogToConversationHistory(w1, session_id, "assistant", ErrorReply(llm),
                            Get(GetSessionData(w1, session_id), "preferences"))
             IN  [w |-> w2, reply |-> ErrorReply(llm), error |-> TRUE,
                  current_conversational_state |-> "error_state",
                  next_action |-> "offer_staff_handoff",
                  merged |-> EmptyDict]

----------------------------------------------------------------------------
(* The chat turn (main.py: chat_endpoint) *)

t_all_rings == <<"a","l","l"," ","r","i","n","g","s">>
t_all_necklaces == <<"a","l","l"," ","n","e","c","k","l","a","c","e","s">>
t_show_me_rings == <<"s","h","o","w"," ","m","e"," ","r","i","n","g","s">>
t_just_rings == <<"j","u","s","t"," ","r","i","n","g","s">>
t_all_earrings == <<"a","l","l"," ","e","a","r","r","i","n","g","s">>
t_show_me_earrings == <<"s","h","o","w"," ","m","e"," ","e","a","r","r","i","n","g","s">>
t_just_earrings == <<"j","u","s","t"," ","e","a","r","r","i","n","g","s">>
t_all_bracelets == <<"a","l","l"," ","b","r","a","c","e","l","e","t","s">>
t_show_me_bracelets == <<"s","h","o","w"," ","m","e"," ","b","r","a","c","e","l","e","t","s">>
t_just_bracelets == <<"j","u","s","t"," ","b","r","a","c","e","l","e","t","s">>

\* main.py: broad_search_triggers
broad_search_triggers ==
    {t_all_rings, t_all_necklaces, t_show_me_rings, t_just_rings,
     t_all_earrings, t_show_me_earrings, t_just_earrings,
     t_all_bracelets, t_show_me_bracelets, t_just_bracelets}

m_hi_ai_assistant == <<"h","i","_","a","i","_","a","s","s","i","s","t","a","n","t">>
m_talk_to_staff == <<"t","a","l","k","_","t","o","_","s","t","a","f","f">>
m_request_staff == <<"r","e","q","u","e","s","t","_","s","t","a","f","f","_","a","s","s","i","s","t","a","n","c","e","_","d","i","a","l","o","g","u","e">>
m_adjust == <<"a","d","j","u","s","t","_","p","r","e","f","e","r","e","n","c","e","s","_","d","i","a","l","o","g","u","e">>
p_item_details == <<"i","t","e","m","_","d","e","t","a","i","l","s",":">>

\* main.py: the if/elif chain that picks category_for_broad_search
CategoryForBroadSearch(user_message_lower) ==
    IF Contains(user_message_lower, s_ring) THEN Str(s_ring)
    ELSE IF Contains(user_message_lower, s_necklace) THEN Str(s_necklace)
    ELSE IF Contains(user_message_lower, s_earring) THEN Str(s_earrings)
    ELSE IF Contains(user_message_lower, s_bracelet) THEN Str(s_bracelet)
    ELSE None

\* main.py: is_broad_category_search_heuristic
IsBroadCategorySearchHeuristic(user_message_lower) ==
    /\ \E trigger \in broad_search_triggers : Contains(user_message_lower, trigger)
    /\ CategoryForBroadSearch(user_message_lower) # None

\* a faulty elif chain: the staff-request control tokens are not recognised and the
\* message goes to the LLM collaborator
BranchWithoutStaffToken(user_message_lower, state) ==
    IF IsBroadCategorySearchHeuristic(user_message_lower) THEN "broad"
    ELSE IF user_message_lower = m_adjust THEN "adjust"
    ELSE IF StartsWith(user_message_lower, p_item_details) THEN "item_details"
    ELSE IF user_message_lower = m_hi_ai_assistant /\ state = "initial_greeting"
    THEN "greeting"
    ELSE "llm"

\* a faulty elif chain: the greeting token is not recognised and the message goes to
\* the LLM collaborator
BranchWithoutGreeting(user_message_lower, state) ==
    IF IsBroadCategorySearchHeuristic(user_message_lower) THEN "broad"
    ELSE IF user_message_lower = m_talk_to_staff \/ user_message_lower = m_request_staff
    THEN "staff"
    ELSE IF user_message_lower = m_adjust THEN "adjust"
    ELSE IF StartsWith(user_message_lower, p_item_details) THEN "item_details"
    ELSE "llm"

\* a faulty elif chain: the greeting token is answered by the greeting heuristic in
\* every state
BranchGreetingInAnyState(user_message_lower, state) ==
    IF IsBroadCategorySearchHeuristic(user_message_lower) THEN "broad"
    ELSE IF user_message_lower = m_talk_to_staff \/ user_message_lower = m_request_staff
    THEN "staff"
    ELSE IF user_message_lower = m_adjust THEN "adjust"
    ELSE IF StartsWith(user_message_lower, p_item_details) THEN "item_details"
    ELSE IF user_message_lower = m_hi_ai_assistant THEN "greeting"
    ELSE "llm"

\* main.py: the branch of chat_endpoint's elif chain a message takes
Branch(user_message_lower, state) ==
    IF IsBroadCategorySearchHeuristic(user_message_lower) THEN "broad"
    ELSE IF user_message_lower = m_talk_to_staff \/ user_message_lower = m_request_staff
    THEN "staff"
    ELSE IF user_message_lower = m_adjust THEN "adjust"
    ELSE IF StartsWith(user_message_lower, p_item_details) THEN "item_details"
    ELSE IF user_message_lower = m_hi_ai_assistant /\ state = "initial_greeting"
    THEN "greeting"
    ELSE "llm"

\* main.py: the preferences the broad-browse heuristic hands to update_session_preferences
PrefsForBroadSearch(category) ==
    Put(Put(EmptyPrefs, "category", category), GENERIC_FLAG, Bool(TRUE))

\* main.py: the search for product_id in PRODUCT_CATALOG_DB
ProductFound(product_id) ==
    \E i \in ProductIndexes : PRODUCT_CATALOG_DB[i].id = product_id

\* main.py: bot_reply_text.lower().startswith(("okay, i'll get a staff member", "sure, i'm notifying"))
StartsWithStaffAck(reply) ==
    reply \in {"Okay, I'll get a staff member to assist you right away!",
               "Sure, I'm notifying a staff member to help you now."}

\* main.py: the elif chain of chat_endpoint: what each branch does to the store and
\* the turn's reply, state and action
TurnBranch(w, session_id, user_message, state, llm) ==
    LET user_message_lower == Lower(user_message)
        branch == Branch(user_message_lower, state)
        base == [w |-> w, branch |-> branch, reply |-> "Let me check on that for you...",
                 state |-> state, action |-> "ask_question", end |-> FALSE,
                 llm_called |-> FALSE, llm_error |-> FALSE, merged |-> EmptyDict,
                 category_for_broad_search |-> None]
    IN  CASE branch = "broad" ->
                LET category == CategoryForBroadSearch(user_message_lower)
                IN  [base EXCEPT
                        !.w = UpdateSessionPreferences(w, session_id, PrefsForBroadSearch(category)),
                        !.merged = PrefsForBroadSearch(category),
                        !.reply = "Certainly! Let me show you our collection",
                        !.action = "recommend_products",
                        !.state = "POST_RECOMMENDATION_FEEDBACK",
                        !.category_for_broad_search = category]
          [] branch = "staff" ->
                [base EXCEPT
                    !.state = "staff_handoff_requested",
                    !.action = "offer_staff_handoff",
                    !.reply = "Okay, I'll get a staff member to assist you right away!",
                    !.end = TRUE]
          [] branch = "adjust" ->
                LET w1 == UpdateSessionPreferences(w, session_id, EmptyPrefs)
                    w2 == SetSessionField(w1, session_id, "last_shown_product_ids", <<>>)
                    r == GetLLMStructuredResponse(w2, session_id,
                            "User wants to adjust preferences", llm)
                IN  [base EXCEPT
                        !.w = r.w, !.reply = r.reply,
                        !.state = r.current_conversational_state,
                        !.action = r.next_action,
                        !.llm_called = TRUE, !.llm_error = r.error, !.merged = r.merged]
          [] branch = "item_details" ->
                LET product_id == Strip(DropPrefix(user_message_lower, p_item_details))
                IN  IF ProductFound(product_id)
                    THEN [base EXCEPT !.reply = "Here are the details",
                                      !.state = "refining_recommendation"]
                    ELSE [base EXCEPT !.reply = "I couldn't find details for that specific item",
                                      !.state = "gathering_preferences"]
          [] branch = "greeting" ->
                [base EXCEPT !.reply = "Welcome to EstroTech Jewellery!",
                             !.state = "identifying_purpose"]
          [] branch = "llm" ->
                LET r == GetLLMStructuredResponse(w, session_id, user_message, llm)
                IN  [base EXCEPT
                        !.w = r.w, !.reply = r.reply,
                        !.state = IF r.error /\ r.next_action = "offer_staff_handoff"
                                  THEN "staff_handoff_requested"
                                  ELSE r.current_conversational_state,
                        !.action = r.next_action,
                        !.llm_called = TRUE, !.llm_error = r.error, !.merged = r.merged]


\* the vector index's answer to one query: an error, or a similarity (in tenths) for
\* every product; NoRag when the index is not asked
RagError == [kind |-> "error"]
RagOk(similarity) == [kind |-> "ok", similarity |-> similarity]
NoRag == [kind |-> "not_called"]

\* main.py: what the recommend_products branch shows: the RAG products when there
\* are any, else the legacy recommender's
SearchResult(rag, tier1_invoked, rag_products, legacy) ==
    [tier1_invoked |-> tier1_invoked,
     tier2_invoked |-> rag_products = <<>> /\ Len(PRODUCT_CATALOG_DB) > 0,
     tier |-> IF rag_products # <<>> THEN "tier1"
              ELSE IF Len(PRODUCT_CATALOG_DB) > 0 /\ legacy.items # <<>> THEN legacy.tier
              ELSE "none",
     products |->
        IF rag_products # <<>>
        THEN [j \in 1..Len(rag_products) |->
                [index |-> rag_products[j],
                 similarity_score |-> Num(rag.similarity[rag_products[j]])]]
        ELSE IF Len(PRODUCT_CATALOG_DB) > 0
        THEN [j \in 1..Len(legacy.items) |->
                [index |-> legacy.items[j], similarity_score |-> None]]
        ELSE <<>>]

\* main.py: the recommend_products branch of chat_endpoint up to the fallback:
\* RAG first, the legacy recommender when RAG gave nothing
RecommendStep(latest_preferences_for_filtering, rag) ==
    SearchResult(rag, rag_available,
        IF rag_available /\ rag.kind = "ok"
        THEN RetrieveRelevantProducts(latest_preferences_for_filtering,
                                      rag.similarity, TopN)
        ELSE <<>>,
        RecommendProducts(latest_preferences_for_filtering, TopN))

\* the ids of a product list: [p.id for p in products_to_show_details]
ProductIds(products) == [j \in 1..Len(products) |-> PRODUCT_CATALOG_DB[products[j].index].id]

NoSearch ==
    [tier1_invoked |-> FALSE, tier2_invoked |-> FALSE, tier |-> "none", products |-> <<>>]

\* the preferences map of a session, {} when the session has none
PreferencesOf(session_data) ==
    IF "preferences" \in DOMAIN session_data THEN session_data["preferences"] ELSE EmptyDict

\* a faulty recording: the products found are not written to the last-shown list
AfterRecommendKeepingLastShown(w2, session_id, recommends, nothing, raised, products) ==
    IF ~recommends \/ raised \/ nothing THEN w2
    ELSE SetSessionField(w2, session_id, "current_conversational_state",
                         "POST_RECOMMENDATION_FEEDBACK")

\* main.py: the store after the recommend_products branch has recorded its outcome
AfterRecommend(w2, session_id, recommends, nothing, raised, products) ==
    IF ~recommends \/ raised THEN w2
    ELSE IF nothing
    \* SESSIONS_STORE[session_id]["current_conversational_state"] = "error_state"
    THEN [w2 EXCEPT !.S =
            Put(w2.S, session_id,
                Put(w2.S[session_id], "current_conversational_state", "error_state"))]
    ELSE IF Get(GetSessionData(w2, session_id), "current_conversational_state")
                # "refining_recommendation"
    THEN SetSessionField(
            SetSessionField(w2, session_id, "last_shown_product_ids", ProductIds(products)),
            session_id, "current_conversational_state", "POST_RECOMMENDATION_FEEDBACK")
    ELSE SetSessionField(w2, session_id, "last_shown_product_ids", ProductIds(products))

\* main.py: the reply text the turn ends with
FinalReply(b, nothing) ==
    IF nothing THEN "I'm having trouble accessing our product catalog right now"
    ELSE IF b.action = "offer_staff_handoff" /\ ~StartsWithStaffAck(b.reply)
    THEN "Sure, I'm notifying a staff member to help you now."
    ELSE b.reply

\* main.py: final_state = get_session_data(session_id).get(
\*              "current_conversational_state", current_app_state_for_turn)
FinalState(final, b) ==
    IF "current_conversational_state" \in DOMAIN final
    THEN final["current_conversational_state"]
    ELSE IF b.action = "offer_staff_handoff" THEN "staff_handoff_requested"
    ELSE b.state

\* main.py: the end of chat_endpoint: the assistant record and the BotResponse
ChatRespond(w4, g, b, search, req, before, latest, raised) ==
    [w |-> w4, used |-> g.used,
     resp |->
        [kind |-> "chat", raised |-> raised,
         in_session_id |-> req.session_id, message |-> req.message,
         branch |-> b.branch, created |-> g.created,
         prefs_before |-> before.preferences, state_before |-> before.state,
         llm |-> IF b.llm_called THEN req.llm ELSE NoLLM,
         llm_error |-> b.llm_error, merged |-> b.merged,
         category_for_broad_search |-> b.category_for_broad_search,
         tier1_invoked |-> search.tier1_invoked,
         tier2_invoked |-> search.tier2_invoked,
         tier |-> search.tier,
         search_prefs |-> IF b.action = "recommend_products" THEN latest ELSE EmptyDict,
         session_id |-> g.sid,
         reply |-> IF raised THEN "HTTP 500" ELSE FinalReply(b, search.nothing),
         products |-> IF raised THEN <<>> ELSE search.products,
         current_state |-> IF raised THEN "HTTP 500"
                           ELSE FinalState(GetSessionData(w4, g.sid), b),
         next_action_suggestion |-> IF raised THEN "HTTP 500" ELSE b.action,
         end_conversation |-> ~raised /\ (b.end \/ b.action = "offer_staff_handoff")]]

\* main.py: log_to_conversation_history(session_id, "assistant", bot_reply_text, ...);
\* not reached when the turn raised
ChatLogReply(w3, g, b, search, req, before, latest, raised) ==
    ChatRespond(
        IF raised THEN w3
        ELSE LogToConversationHistory(w3, g.sid, "assistant", FinalReply(b, search.nothing),
                Get(GetSessionData(w3, g.sid), "preferences")),
        g, b, search, req, before, latest, raised)

\* main.py: the recommend_products branch has searched; `raised' is the KeyError of
\* SESSIONS_STORE[session_id] when nothing was found and the session lives in Redis
ChatRecord(w2, g, b, search, req, before, latest, raised) ==
    ChatLogReply(
        AfterRecommend(w2, g.sid, b.action = "recommend_products", search.nothing, raised,
                       search.products),
        g, b, search, req, before, latest, raised)

ChatSearched(w2, g, b, search, req, before, latest) ==
    ChatRecord(w2, g, b, search, req, before, latest,
               search.nothing /\ g.sid \notin DOMAIN w2.S)

WithNothing(search, recommends) ==
    [tier1_invoked |-> search.tier1_invoked, tier2_invoked |-> search.tier2_invoked,
     tier |-> search.tier, products |-> search.products,
     nothing |-> recommends /\ search.products = <<>>]

\* main.py: latest_preferences_for_filtering = get_session_data(session_id).get("preferences", {})
ChatSearch(w2, g, b, req, before, latest) ==
    ChatSearched(w2, g, b,
        WithNothing(IF b.action = "recommend_products"
                    THEN RecommendStep(latest, req.rag) ELSE NoSearch,
                    b.action = "recommend_products"),
        req, before, latest)

\* main.py: "Update session state" after the elif chain
ChatStateWritten(w2, g, b, req, before) ==
    ChatSearch(w2, g, b, req, before, PreferencesOf(GetSessionData(w2, g.sid)))

ChatBranched(g, b, req, before) ==
    ChatStateWritten(
        SetSessionField(b.w, g.sid, "current_conversational_state", b.state),
        g, b, req, before)

\* main.py: the user record is logged, then the elif chain runs
ChatDispatch(g, req, user_message, before) ==
    ChatBranched(g,
        TurnBranch(
            LogToConversationHistory(g.w, g.sid, "user", user_message, before.preferences),
            g.sid, user_message, before.state, req.llm),
        req, before)

SessionBefore(session_data) ==
    [preferences |-> Get(session_data, "preferences"),
     state |-> IF "current_conversational_state" \in DOMAIN session_data
               THEN session_data["current_conversational_state"]
               ELSE "initial_greeting"]

ChatWithSession(g, req) ==
    ChatDispatch(g, req, Strip(req.message), SessionBefore(Store(g.w)[g.sid]))

\* main.py: chat_endpoint, from the request to the response
ChatEndpoint(w0, used, in_session_id, message, llm, rag) ==
    ChatWithSession(
        GetOrCreateSession(w0, in_session_id, used),
        [session_id |-> in_session_id, message |-> message, llm |-> llm, rag |-> rag])


\* a faulty reset: the whole history is dropped, not only the session's records
NewSessionClearingAllHistory(w, session_id) ==
    IF session_id = NoId
    THEN [w |-> w, status |-> "error"]
    ELSE [w |-> [w EXCEPT
                    !.R = [k \in DOMAIN w.R \ {session_id} |-> w.R[k]],
                    !.RH = EmptyDict,
                    !.S = [k \in DOMAIN w.S \ {session_id} |-> w.S[k]],
                    !.H = <<>>],
          status |-> "cleared"]

\* main.py: new_session_endpoint (cache.py: delete_session)
NewSessionEndpoint(w, session_id) ==
    IF session_id = NoId
    THEN [w |-> w, status |-> "error"]
    ELSE IF redis_connected
    THEN [w |-> [w EXCEPT
                    !.R = [k \in DOMAIN w.R \ {session_id} |-> w.R[k]],
                    !.RH = [k \in DOMAIN w.RH \ {session_id} |-> w.RH[k]]],
          status |-> IF session_id \in DOMAIN w.R \/ session_id \in DOMAIN w.RH
                     THEN "cleared" ELSE "not_found"]
    ELSE [w |-> [w EXCEPT
                    !.S = [k \in DOMAIN w.S \ {session_id} |-> w.S[k]],
                    !.H = SelectSeq(w.H, LAMBDA msg : msg.session_id # session_id)],
          status |-> "cleared"]

----------------------------------------------------------------------------
(* The requests the model sends *)

m_Talk_To_Staff_padded == <<" ","T","a","l","k","_","T","o","_","S","t","a","f","f"," ">>
m_item_details_p1 == <<"i","t","e","m","_","d","e","t","a","i","l","s",":","p","1">>
m_item_details_P3 == <<"i","t","e","m","_","d","e","t","a","i","l","s",":","P","3">>
m_show_me_all_rings == <<"s","h","o","w"," ","m","e"," ","a","l","l"," ","r","i","n","g","s">>
m_All_Earrings == <<"A","l","l"," ","E","a","r","r","i","n","g","s">>
m_all_necklaces == <<"a","l","l"," ","n","e","c","k","l","a","c","e","s">>
m_just_bracelets == <<"j","u","s","t"," ","b","r","a","c","e","l","e","t","s">>
m_free_text == <<"a"," ","g","i","f","t">>

Messages ==
    {m_hi_ai_assistant, m_Talk_To_Staff_padded, m_request_staff, m_adjust,
     m_item_details_p1, m_item_details_P3,
     m_show_me_all_rings, m_All_Earrings, m_all_necklaces, m_just_bracelets,
     m_free_text}

\* the extracted_preferences object of an LLM answer: every slot the answer does not
\* name is an explicit null, as the prompt's output format asks
Extracted(named) == [k \in Slots |-> IF k \in DOMAIN named THEN named[k] ELSE None]

x_ring == [k \in {"category"} |-> Str(s_ring)]
x_gold_2000 == [k \in {"metal", "budget_max"} |-> IF k = "metal" THEN Str(s_gold) ELSE Num(2000)]
x_budget_0 == [k \in {"budget_max"} |-> Num(0)]
x_blank_metal == [k \in {"metal", "occasion"} |-> IF k = "metal" THEN Str(s_empty) ELSE Str(s_NULL)]

LLMAnswers ==
    {LLMJsonError, LLMApiError,
     LLMPayload(Extracted(x_ring), "gathering_preferences", "ask_question", "high"),
     LLMPayload(Extracted(x_gold_2000), "ready_for_recommendation", "recommend_products", "high"),
     LLMPayload(Extracted(EmptyDict), "ready_for_recommendation", "recommend_products", "low"),
     LLMPayload(Extracted(x_budget_0), "refining_recommendation", "recommend_products", "medium"),
     LLMPayload(Extracted(x_blank_metal), "browsing", "ask_question", "medium"),
     LLMPayload(EmptyDict, "gathering_preferences", "offer_staff_handoff", "high"),
     LLMPayload(Extracted(x_ring), "gathering_preferences", "end_conversation", "high"),
     LLMPayload(Extracted(x_ring), "gathering_preferences", "ask_question", "certain")}

sim_high == <<8, 8, 8, 8, 8, 8>>
sim_mixed == <<9, 6, 3, 7, 5, 8>>

RagAnswers == {RagError, RagOk(sim_high), RagOk(sim_mixed)}

\* the index is asked only when RAG is available
RagChoices == IF rag_available THEN RagAnswers ELSE {NoRag}

----------------------------------------------------------------------------
(* The chat service as a state machine *)

World == [S |-> SESSIONS_STORE, R |-> redis_sessions,
          H |-> CONVERSATION_HISTORY_LOG, RH |-> redis_history]

PureIdle == [op |-> "idle"]

Init ==
    /\ redis_connected \in BOOLEAN
    /\ rag_available \in BOOLEAN
    /\ SESSIONS_STORE = EmptyDict
    /\ redis_sessions = EmptyDict
    /\ CONVERSATION_HISTORY_LOG = <<>>
    /\ redis_history = EmptyDict
    /\ usedIds = {}
    /\ turns = 0
    /\ resp = [kind |-> "none"]
    /\ pure = PureIdle

\* the session ids a client can send: none, or one the service has handed out
ClientIds == {NoId} \cup usedIds

CanServe(in_session_id) ==
    /\ turns < MaxTurns
    /\ in_session_id \in DOMAIN Store(World) \/ SessionIds \ usedIds # {}

StateOf(in_session_id) ==
    IF in_session_id \in DOMAIN Store(World)
    THEN Store(World)[in_session_id]["current_conversational_state"]
    ELSE "initial_greeting"

BranchOf(in_session_id, message) ==
    Branch(Lower(Strip(message)), StateOf(in_session_id))

Apply(r) ==
    /\ SESSIONS_STORE' = r.w.S
    /\ redis_sessions' = r.w.R
    /\ CONVERSATION_HISTORY_LOG' = r.w.H
    /\ redis_history' = r.w.RH
    /\ usedIds' = r.used
    /\ resp' = r.resp
    /\ turns' = turns + 1
    /\ UNCHANGED <<redis_connected, rag_available, pure>>

\* a turn one of the heuristics answers without a recommendation
ChatHeuristic ==
    \E in_session_id \in ClientIds, message \in Messages :
        /\ CanServe(in_session_id)
        /\ BranchOf(in_session_id, message) \in {"staff", "item_details", "greeting"}
        /\ Apply(ChatEndpoint(World, usedIds, in_session_id, message, NoLLM, NoRag))

\* a broad category browse turn
ChatBroad ==
    \E in_session_id \in ClientIds, message \in Messages :
        /\ CanServe(in_session_id)
        /\ BranchOf(in_session_id, message) = "broad"
        /\ \E rag \in RagChoices :
              Apply(ChatEndpoint(World, usedIds, in_session_id, message, NoLLM, rag))

\* a turn the LLM collaborator interprets
ChatDelegated ==
    \E in_session_id \in ClientIds, message \in Messages :
        /\ CanServe(in_session_id)
        /\ BranchOf(in_session_id, message) \in {"adjust", "llm"}
        /\ \E llm \in LLMAnswers :
              \E rag \in (IF ValidatesAsLLMStructuredOutput(llm)
                             /\ llm.next_action = "recommend_products"
                          THEN RagChoices ELSE {NoRag}) :
                 Apply(ChatEndpoint(World, usedIds, in_session_id, message, llm, rag))

\* a call of /new-session
NewSession ==
    \E session_id \in ClientIds :
        /\ resp.kind = "chat"
        /\ LET r == NewSessionEndpoint(World, session_id)
           IN  /\ SESSIONS_STORE' = r.w.S
               /\ redis_sessions' = r.w.R
               /\ CONVERSATION_HISTORY_LOG' = r.w.H
               /\ redis_history' = r.w.RH
               /\ resp' = [kind |-> "new_session", session_id |-> session_id,
                           status |-> r.status]
        /\ UNCHANGED <<redis_connected, rag_available, usedIds, turns, pure>>

Next ==
    \/ ChatHeuristic
    \/ ChatBroad
    \/ ChatDelegated
    \/ NewSession

Spec == Init /\ [][Next]_vars

----------------------------------------------------------------------------
(* The two preference merges as pure functions of a stored map P and a delta D *)

MaxFilled == 1
MaxDeltaSlots == 2

\* the values a delta can carry for a slot
DeltaValues ==
    {None, Str(s_empty), Str(s_space), Str(s_null), Str(s_NULL),
     Str(s_silver), Num(0)}

\* stored maps: every slot present, at most MaxFilled of them holding a value
StoredMaps ==
    {[k \in Slots |-> IF k \in filled THEN Str(s_gold) ELSE None] :
        filled \in {f \in SUBSET Slots : Cardinality(f) <= MaxFilled}}

\* deltas: maps naming at most MaxDeltaSlots slots
Deltas ==
    UNION {[named -> DeltaValues] :
            named \in {n \in SUBSET Slots : Cardinality(n) <= MaxDeltaSlots}}

InitMerge ==
    /\ redis_connected = FALSE
    /\ rag_available = FALSE
    /\ SESSIONS_STORE = EmptyDict
    /\ redis_sessions = EmptyDict
    /\ CONVERSATION_HISTORY_LOG = <<>>
    /\ redis_history = EmptyDict
    /\ usedIds = {}
    /\ turns = 0
    /\ resp = [kind |-> "none"]
    /\ pure \in [op : {"input"}, P : StoredMaps, D : Deltas]

\* main.py: the merge of update_session_preferences applied to (P, D)
ApplyUpdateSessionPreferences ==
    /\ pure.op = "input"
    /\ pure' = [op |-> "update_session_preferences", P |-> pure.P, D |-> pure.D,
                out |-> MergePreferences(pure.P, pure.D)]
    /\ UNCHANGED chatVars

\* conversation_engine.py: the merge of update_preferences applied to (P, D)
ApplyUpdatePreferences ==
    /\ pure.op = "input"
    /\ pure' = [op |-> "update_preferences", P |-> pure.P, D |-> pure.D,
                out |-> EngineMergePreferences(pure.P, pure.D)]
    /\ UNCHANGED chatVars

NextMerge ==
    \/ ApplyUpdateSessionPreferences
    \/ ApplyUpdatePreferences

SpecMerge == InitMerge /\ [][NextMerge]_vars

----------------------------------------------------------------------------
(* Properties of the preference merges *)

\* a delta value that retracts a slot: null, an empty or whitespace string, or the
\* string "null" in any case
IsRetraction(v) ==
    v = None \/ Strip(PyStr(v)) = s_empty \/ Lower(PyStr(v)) = s_null

\* the three-way merge contract for one slot
ObeysMergeContract(P, D, out, key) ==
    /\ key \in DOMAIN out
    /\ key \notin DOMAIN D => out[key] = P[key]
    /\ (key \in DOMAIN D /\ ~IsRetraction(D[key])) => out[key] = D[key]
    /\ (key \in DOMAIN D /\ IsRetraction(D[key])) => out[key] = None

\* C1: after update_session_preferences merges a delta D into a stored map P, each
\* of the eight slots keeps P's value when D omits it, takes D's value when D holds
\* a real value, and is null when D holds null, an empty or whitespace string, or
\* the string "null".
C1_UpdateSessionPreferencesContract ==
    pure.op = "update_session_preferences" =>
        \A key \in Slots : ObeysMergeContract(pure.P, pure.D, pure.out, key)

\* C2: EnhancedConversationEngine.update_preferences obeys the same three-way
\* contract, and never stores the string "null" as a preference value.
C2_EngineUpdatePreferencesContract ==
    pure.op = "update_preferences" =>
        \A key \in Slots :
            /\ ObeysMergeContract(pure.P, pure.D, pure.out, key)
            /\ Lower(PyStr(pure.out[key])) # s_null

----------------------------------------------------------------------------
(* Properties of the chat turn *)

\* the response in hand is that of a chat turn that returned a BotResponse
Answered == resp.kind = "chat" /\ ~resp.raised

\* the stored preferences of the session the last turn served
StoredPreferences == Store(World)[resp.session_id]["preferences"]

StoredState == Store(World)[resp.session_id]["current_conversational_state"]

\* C3: on a turn the LLM collaborator interprets, a slot the collaborator returns
\* explicitly as null, and which held a value before the turn, is null in the
\* stored session after the turn.
C3_ExplicitNullClearsSlot ==
    (Answered /\ resp.llm.kind = "payload" /\ ~resp.llm_error) =>
        \A key \in Slots :
            (/\ key \in DOMAIN resp.llm.extracted_preferences
             /\ resp.llm.extracted_preferences[key] = None
             /\ resp.prefs_before[key] # None)
            => StoredPreferences[key] = None

\* C4: every stored session's preference map contains all eight slot names.
C4_EverySlotAlwaysPresent ==
    /\ \A sid \in DOMAIN SESSIONS_STORE :
          /\ "preferences" \in DOMAIN SESSIONS_STORE[sid]
          /\ Slots \subseteq DOMAIN SESSIONS_STORE[sid]["preferences"]
    /\ \A sid \in DOMAIN redis_sessions :
          /\ "preferences" \in DOMAIN redis_sessions[sid]
          /\ Slots \subseteq DOMAIN redis_sessions[sid]["preferences"]

\* a session that has been through a merge that set a slot and then through a second
\* turn that merged again (a broad browse or an adjust-preferences turn) is stored
C4_Witness ==
    /\ resp.kind = "chat"
    /\ turns = MaxTurns
    /\ resp.branch \in {"broad", "adjust"}
    /\ ~resp.created
    /\ \E key \in Slots : resp.prefs_before[key] # None
    /\ resp.session_id \in DOMAIN Store(World)

TerminalStates == {"staff_handoff_requested", "conversation_ended"}

IsStaffToken(message) ==
    Lower(Strip(message)) \in {m_talk_to_staff, m_request_staff}

\* C5: from any non-terminal state and with any preferences, a turn whose message
\* is the staff-request control token ends with the session stored and returned in
\* state staff_handoff_requested, next action offer_staff_handoff,
\* end_conversation true, and the preferences unchanged.
C5_StaffTokenHandsOff ==
    (/\ resp.kind = "chat"
     /\ IsStaffToken(resp.message)
     /\ resp.state_before \notin TerminalStates)
    => /\ ~resp.raised
       /\ StoredState = "staff_handoff_requested"
       /\ resp.current_state = "staff_handoff_requested"
       /\ resp.next_action_suggestion = "offer_staff_handoff"
       /\ resp.end_conversation
       /\ StoredPreferences = resp.prefs_before

\* the staff token arrives in a session that already holds a preference
C5_Witness ==
    /\ resp.kind = "chat"
    /\ IsStaffToken(resp.message)
    /\ resp.state_before \notin TerminalStates
    /\ ~resp.created
    /\ \E key \in Slots : resp.prefs_before[key] # None
    /\ resp.end_conversation

\* the broad-browse trigger phrases of each category
TriggersFor(X) ==
    CASE X = s_ring -> {t_all_rings, t_show_me_rings, t_just_rings}
      [] X = s_necklace -> {t_all_necklaces}
      [] X = s_earrings -> {t_all_earrings, t_show_me_earrings, t_just_earrings}
      [] X = s_bracelet -> {t_all_bracelets, t_show_me_bracelets, t_just_bracelets}

BrowseCategories == {s_ring, s_necklace, s_earrings, s_bracelet}

MatchesTriggerFor(message, X) ==
    \E trigger \in TriggersFor(X) : Contains(Lower(Strip(message)), trigger)

\* C6: a message that matches a broad-browse trigger phrase for category X forces
\* the session's category slot to X, sets every other slot to null, and yields
\* next action recommend_products without consulting the LLM collaborator.
C6_BroadBrowseForcesCategory ==
    \A X \in BrowseCategories :
        (Answered /\ MatchesTriggerFor(resp.message, X)) =>
            /\ StoredPreferences["category"] = Str(X)
            /\ \A key \in Slots \ {"category"} : StoredPreferences[key] = None
            /\ resp.next_action_suggestion = "recommend_products"
            /\ resp.llm.kind = "not_called"

\* the catalog's products of category X by ascending price, at most TopN of them
InCategory(i, X) == Lower(PRODUCT_CATALOG_DB[i].category) = Lower(X)

AscendingByPrice(products) ==
    \A j \in 1..(Len(products) - 1) :
        PRODUCT_CATALOG_DB[products[j].index].price
            <= PRODUCT_CATALOG_DB[products[j + 1].index].price

Shown(products) == {products[j].index : j \in 1..Len(products)}

\* C7: on a broad-browse turn the returned products all belong to the category the
\* turn browses, no other filter has removed a product of that category, and they
\* are ordered by ascending price.
C7_BroadBrowseAscendingPrice ==
    (Answered /\ resp.branch = "broad" /\ resp.products # <<>>) =>
        /\ \A i \in Shown(resp.products) :
              InCategory(i, resp.category_for_broad_search.s)
        /\ \/ Len(resp.products) = TopN
           \/ \A i \in ProductIndexes :
                 InCategory(i, resp.category_for_broad_search.s)
                    => i \in Shown(resp.products)
        /\ AscendingByPrice(resp.products)

\* the collaborator failed, or answered with a payload the schema rejects
LLMFailed ==
    /\ resp.llm.kind # "not_called"
    /\ ~ValidatesAsLLMStructuredOutput(resp.llm)

ApologyReplies ==
    {ErrorReply(LLMJsonError), ErrorReply(LLMApiError),
     ErrorReply(LLMPayload(EmptyDict, "error_state", "none", "none"))}

\* C8: when the LLM collaborator fails or returns an unparsable or schema-invalid
\* payload, the turn ends with state error_state, action offer_staff_handoff and
\* the fixed apology reply, and the preferences equal those before the turn.
C8_LLMFailureEndsInErrorState ==
    (Answered /\ LLMFailed) =>
        /\ resp.current_state = "error_state"
        /\ resp.next_action_suggestion = "offer_staff_handoff"
        /\ resp.reply \in ApologyReplies
        /\ StoredPreferences = resp.prefs_before

\* C9: on a turn that is not a broad browse, the Tier 1 or Tier 2 search is never
\* invoked while category, occasion and recipient are all null.
C9_NoSearchOnEmptyPreferences ==
    (/\ resp.kind = "chat"
     /\ resp.branch # "broad"
     /\ resp.tier1_invoked \/ resp.tier2_invoked)
    => \E key \in {"category", "occasion", "recipient"} : resp.search_prefs[key] # None

\* C10: whenever budget_max is set (0 included), every product the Tier 1 or the
\* Tier 2 search returns has price <= budget_max.
C10_BudgetHardCeiling ==
    (/\ Answered
     /\ resp.tier \in {"tier1", "tier2"}
     /\ resp.search_prefs["budget_max"] # None)
    => \A i \in Shown(resp.products) :
          PRODUCT_CATALOG_DB[i].price <= resp.search_prefs["budget_max"].n

----------------------------------------------------------------------------
(* The legacy recommender as a pure function of the preferences and top_n *)

\* the values a stored preference map can hold, slot by slot
SlotValues(key) ==
    CASE key = "category"    -> {None, Str(s_ring), Str(s_Ring), Str(s_necklace), Str(s_bracelet)}
      [] key = "metal"       -> {None, Str(s_Gold)}
      [] key = "gemstone"    -> {None, Str(s_diamond), Str(s_none)}
      [] key = "style"       -> {None, Str(s_elegant)}
      [] key = "design_type" -> {None, Str(s_solitaire)}
      [] key = "occasion"    -> {None, Str(s_wedding)}
      [] key = "recipient"   -> {None, Str(s_wife)}
      [] key = "budget_max"  -> {None, Num(0), Num(600), Num(2000)}

SearchPreferences ==
    [occasion : SlotValues("occasion"), recipient : SlotValues("recipient"),
     category : SlotValues("category"), metal : SlotValues("metal"),
     design_type : SlotValues("design_type"), style : SlotValues("style"),
     budget_max : SlotValues("budget_max"), gemstone : SlotValues("gemstone")]

\* the same maps, with and without the generic show-all flag
FlaggedSearchPreferences ==
    SearchPreferences \cup {Put(p, GENERIC_FLAG, Bool(TRUE)) : p \in SearchPreferences}

SmallTopN == 2

\* a faulty broad branch: it sorts the catalog list itself by price
CatalogSortedInPlace(preferences, top_n) ==
    IF IsBroadCategorySearch(preferences)
    THEN LET keyed == [i \in ProductIndexes |->
                          [k |-> <<PRODUCT_CATALOG_DB[i].price, 0>>, v |-> i]]
             sorted == SortAsc(keyed)
         IN  [j \in ProductIndexes |-> PRODUCT_CATALOG_DB[sorted[j].v]]
    ELSE PRODUCT_CATALOG_DB

\* main.py: self.product_catalog after recommend_products returned. The broad branch
\* sorts the list its comprehension built, the scored branch wraps each product in a new
\* {"product", "score"} dict and sorts the list of those; no statement assigns to the
\* catalog list, to an element of it or to a key of a product
CatalogAfterRecommend(preferences, top_n) ==
    PRODUCT_CATALOG_DB

\* main.py: the preferences dict after recommend_products returned; it and
\* _calculate_match_score only call .get and .items on it
PreferencesAfterRecommend(preferences, top_n) ==
    preferences

InitRecommend ==
    /\ redis_connected = FALSE
    /\ rag_available = FALSE
    /\ SESSIONS_STORE = EmptyDict
    /\ redis_sessions = EmptyDict
    /\ CONVERSATION_HISTORY_LOG = <<>>
    /\ redis_history = EmptyDict
    /\ usedIds = {}
    /\ turns = 0
    /\ resp = [kind |-> "none"]
    /\ pure \in [op : {"input"}, preferences : FlaggedSearchPreferences,
                 top_n : {SmallTopN, TopN}]

\* main.py: JewelleryRecommender.recommend_products applied to the input
ApplyRecommendProducts ==
    /\ pure.op = "input"
    /\ pure' = [op |-> "recommend_products", preferences |-> pure.preferences,
                top_n |-> pure.top_n,
                out |-> RecommendProducts(pure.preferences, pure.top_n),
                catalog_after |-> CatalogAfterRecommend(pure.preferences, pure.top_n),
                preferences_after |-> PreferencesAfterRecommend(pure.preferences, pure.top_n)]
    /\ UNCHANGED chatVars

NextRecommend == ApplyRecommendProducts

SpecRecommend == InitRecommend /\ [][NextRecommend]_vars

\* the score the Tier 2 scorer gives catalog product i under the input preferences
ScoreOf(i) == CalculateMatchScore(PRODUCT_CATALOG_DB[i], pure.preferences)

PriceOf(i) == PRODUCT_CATALOG_DB[i].price

Returned == {pure.out.items[j] : j \in 1..Len(pure.out.items)}

CategoryRequested ==
    /\ pure.op = "recommend_products"
    /\ pure.out.tier = "tier2"
    /\ pure.preferences["category"] # None

\* C11: when category is set and the request is not a generic show-all, the Tier 2
\* scorer gives score zero to every product of another category (compared without
\* case), and no such product is in the Tier 2 result.
C11_CategoryGate ==
    CategoryRequested =>
        \A i \in ProductIndexes :
            ~InCategory(i, pure.preferences["category"].s) =>
                ScoreOf(i) = 0 /\ i \notin Returned

\* a category search that returns products while the catalog holds products of other
\* categories that match the other preferences
C11_Witness ==
    /\ CategoryRequested
    /\ pure.preferences["metal"] # None
    /\ Returned # {}
    /\ \E i \in ProductIndexes :
          /\ ~InCategory(i, pure.preferences["category"].s)
          /\ Contains(Lower(PRODUCT_CATALOG_DB[i].metal), Lower(pure.preferences["metal"].s))

Tier2Answered == pure.op = "recommend_products" /\ pure.out.tier = "tier2"

Tier2Ranked ==
    /\ \A i \in Returned : ScoreOf(i) > 0
    /\ Len(pure.out.items) <= pure.top_n
    /\ \A j, k \in 1..Len(pure.out.items) :
          j < k =>
            /\ ScoreOf(pure.out.items[j]) >= ScoreOf(pure.out.items[k])
            /\ ScoreOf(pure.out.items[j]) = ScoreOf(pure.out.items[k])
                  => PriceOf(pure.out.items[j]) <= PriceOf(pure.out.items[k])

WithinBudget(i) ==
    pure.preferences["budget_max"] = None \/ PriceOf(i) <= pure.preferences["budget_max"].n

\* C12 as stated: the Tier 2 list holds only products with score > 0, at most top_n,
\* in non-increasing score order, equal scores in non-decreasing price order, and
\* no product left out of the list has a higher score than one in it.
C12_Tier2OrderingAsStated ==
    Tier2Answered =>
        /\ Tier2Ranked
        /\ \A i \in ProductIndexes \ Returned :
              \A j \in Returned : ScoreOf(i) <= ScoreOf(j)

\* C12 amended: as above, where the products left out are compared only when they
\* are within the budget ceiling (a product over budget is left out whatever its
\* score).
C12_Tier2Ordering ==
    Tier2Answered =>
        /\ Tier2Ranked
        /\ \A i \in ProductIndexes \ Returned :
              WithinBudget(i) => \A j \in Returned : ScoreOf(i) <= ScoreOf(j)

\* top_n cuts a list with equal scores at different prices, and a positive-score
\* product within budget is left out
C12_Witness ==
    /\ Tier2Answered
    /\ Len(pure.out.items) = pure.top_n
    /\ \E j, k \in 1..Len(pure.out.items) :
          /\ ScoreOf(pure.out.items[j]) = ScoreOf(pure.out.items[k])
          /\ PriceOf(pure.out.items[j]) < PriceOf(pure.out.items[k])
    /\ \E j, k \in 1..Len(pure.out.items) :
          ScoreOf(pure.out.items[j]) > ScoreOf(pure.out.items[k])
    /\ \E i \in ProductIndexes \ Returned : ScoreOf(i) > 0 /\ WithinBudget(i)

----------------------------------------------------------------------------
(* Properties of the recommend step of a chat turn *)

\* the last turn ran the recommend_products branch
Recommended == resp.kind = "chat" /\ (resp.tier1_invoked \/ resp.tier2_invoked)

\* the number of products Tier 1 handed back (none when it raised or was not asked)
Tier1Count == IF resp.tier = "tier1" THEN Len(resp.products) ELSE 0

\* C13: on a recommend turn Tier 2 is run when, and only when, Tier 1 returned
\* fewer than the minimum acceptable count (3) of products or raised an error.
C13_Tier2TriggeredBelowMinimum ==
    Recommended => (resp.tier2_invoked <=> Tier1Count < 3)

\* the recommend step of the last turn found no product in any tier
NothingFound == Recommended /\ resp.tier = "none"

\* C14: when a recommend turn finds no product in any tier, the turn completes
\* without raising, the session is not put into error_state, the state returns to
\* gathering_preferences and the reply is not the catalog-failure reply, under the
\* in-memory and under the cache-backed session store.
C14_EmptyResultIsNormal ==
    NothingFound =>
        /\ ~resp.raised
        /\ StoredState # "error_state"
        /\ resp.current_state = "gathering_preferences"
        /\ resp.reply # "I'm having trouble accessing our product catalog right now"

----------------------------------------------------------------------------
(* The confidence classifier (conversation_engine.py) as a pure function *)

RECURSIVE SumSeq(_)
SumSeq(xs) == IF xs = <<>> THEN 0 ELSE Head(xs) + SumSeq(Tail(xs))

\* sum(1 for v in context.preferences.values() if v is not None)
FilledPreferences(preferences) ==
    Cardinality({k \in DOMAIN preferences : preferences[k] # None})

\* a faulty classifier: high is decided on the similarity alone
ConfidenceFromSimilarityOnly(preferences, products) ==
    IF products = <<>> THEN "low"
    ELSE IF SumSeq(products) >= 7 * Len(products) THEN "high"
    ELSE IF SumSeq(products) >= 5 * Len(products) THEN "medium"
    ELSE "low"

\* a faulty classifier: medium is refused to results with a similarity of 0.7 and more
ConfidenceMediumBand(preferences, products) ==
    IF products = <<>> THEN "low"
    ELSE IF FilledPreferences(preferences) * 10 >= 5 * Len(ALL_PREFERENCE_KEYS)
            /\ SumSeq(products) >= 7 * Len(products)
            /\ Get(preferences, "category") # None
    THEN "high"
    ELSE IF FilledPreferences(preferences) * 10 >= 3 * Len(ALL_PREFERENCE_KEYS)
            /\ SumSeq(products) >= 5 * Len(products)
            /\ SumSeq(products) < 7 * Len(products)
    THEN "medium"
    ELSE "low"

\* conversation_engine.py: EnhancedConversationEngine.get_recommendation_confidence;
\* products is the list of the products' similarity scores in tenths, so that
\* avg_similarity >= 0.7 is sum >= 7 * len, and preference_ratio >= 0.5 is
\* filled * 10 >= 5 * len(preference_keys)
GetRecommendationConfidence(preferences, products) ==
    IF products = <<>> THEN "low"
    ELSE IF FilledPreferences(preferences) * 10 >= 5 * Len(ALL_PREFERENCE_KEYS)
            /\ SumSeq(products) >= 7 * Len(products)
            /\ Get(preferences, "category") # None
    THEN "high"
    ELSE IF FilledPreferences(preferences) * 10 >= 3 * Len(ALL_PREFERENCE_KEYS)
            /\ SumSeq(products) >= 5 * Len(products)
    THEN "medium"
    ELSE "low"

MaxProducts == 2

\* similarity scores, in tenths
Similarities == {4, 5, 6, 7, 8}

ProductLists == UNION {[1..n -> Similarities] : n \in 0..MaxProducts}

\* context.preferences with any set of slots filled
ContextPreferences ==
    {[k \in Slots |-> IF k \in filled THEN Str(s_gold) ELSE None] : filled \in SUBSET Slots}

InitConfidence ==
    /\ redis_connected = FALSE
    /\ rag_available = FALSE
    /\ SESSIONS_STORE = EmptyDict
    /\ redis_sessions = EmptyDict
    /\ CONVERSATION_HISTORY_LOG = <<>>
    /\ redis_history = EmptyDict
    /\ usedIds = {}
    /\ turns = 0
    /\ resp = [kind |-> "none"]
    /\ pure \in [op : {"input"}, preferences : ContextPreferences, products : ProductLists]

ApplyGetRecommendationConfidence ==
    /\ pure.op = "input"
    /\ pure' = [op |-> "get_recommendation_confidence",
                preferences |-> pure.preferences, products |-> pure.products,
                out |-> GetRecommendationConfidence(pure.preferences, pure.products)]
    /\ UNCHANGED chatVars

NextConfidence == ApplyGetRecommendationConfidence

SpecConfidence == InitConfidence /\ [][NextConfidence]_vars

Classified == pure.op = "get_recommendation_confidence"

FilledSlots == Cardinality({k \in Slots : pure.preferences[k] # None})

\* the mean similarity of the classified list is at least n tenths
MeanAtLeast(n) == SumSeq(pure.products) >= n * Len(pure.products)

\* C15: low for an empty list; otherwise high exactly when at least 4 of 8 slots are
\* filled, the mean similarity is >= 0.7 and category is set; otherwise medium
\* exactly when at least 3 of 8 slots are filled and the mean similarity is >= 0.5;
\* otherwise low.  Category plus 2 other slots at similarity 0.8 is medium.
C15_ConfidenceClassification ==
    Classified =>
        /\ pure.products = <<>> => pure.out = "low"
        /\ pure.products # <<>> =>
              LET high == FilledSlots >= 4 /\ MeanAtLeast(7)
                            /\ pure.preferences["category"] # None
                  medium == ~high /\ FilledSlots >= 3 /\ MeanAtLeast(5)
              IN  /\ pure.out = "high" <=> high
                  /\ pure.out = "medium" <=> medium
                  /\ pure.out = "low" <=> (~high /\ ~medium)
        /\ (/\ pure.preferences["category"] # None
            /\ FilledSlots = 3
            /\ pure.products = <<8>>) => pure.out = "medium"

\* the boundary case: category plus two other slots, one product of similarity 0.8
C15_Witness ==
    /\ Classified
    /\ pure.preferences["category"] # None
    /\ FilledSlots = 3
    /\ pure.products = <<8>>
    /\ pure.out = "medium"

Rank(tier) == CASE tier = "low" -> 0 [] tier = "medium" -> 1 [] tier = "high" -> 2

\* C16: for a fixed preference set and non-empty result lists, a list with a higher
\* average similarity is never classified lower.
C16_ConfidenceMonotone ==
    (Classified /\ pure.products # <<>>) =>
        \A better \in ProductLists :
            (/\ better # <<>>
             /\ SumSeq(better) * Len(pure.products) >= SumSeq(pure.products) * Len(better))
            => Rank(GetRecommendationConfidence(pure.preferences, better)) >= Rank(pure.out)

\* a medium classification that a higher average similarity raises to high
C16_Witness ==
    /\ Classified
    /\ pure.out = "medium"
    /\ \E better \in ProductLists :
          /\ better # <<>>
          /\ SumSeq(better) * Len(pure.products) > SumSeq(pure.products) * Len(better)
          /\ GetRecommendationConfidence(pure.preferences, better) = "high"

----------------------------------------------------------------------------
(* The greeting, the history and the store across a turn *)

\* the response answers a turn that carried no session id and the greeting token
GreetingTurn ==
    /\ resp.kind = "chat"
    /\ resp.in_session_id = NoId
    /\ resp.message = m_hi_ai_assistant

\* C17: a turn with no session id and the message "hi_ai_assistant" creates a new
\* session under an id no session had before, with every slot null; the state
\* identifying_purpose is stored and returned with the action ask_question, the reply
\* is the fixed greeting, no product is returned and the LLM collaborator is not called.
C17_GreetingScenario ==
    [][GreetingTurn' =>
        /\ ~resp'.raised
        /\ resp'.session_id \notin usedIds
        /\ resp'.session_id \in usedIds'
        /\ resp'.session_id \in DOMAIN Store(World)'
        /\ StoredPreferences' = EmptyPrefs
        /\ StoredState' = "identifying_purpose"
        /\ resp'.current_state = "identifying_purpose"
        /\ resp'.next_action_suggestion = "ask_question"
        /\ resp'.reply = "Welcome to EstroTech Jewellery!"
        /\ resp'.products = <<>>
        /\ resp'.llm = NoLLM]_vars

\* a greeting turn has been answered, after an earlier session already existed
C17_Witness ==
    /\ GreetingTurn
    /\ resp.branch = "greeting"
    /\ resp.created
    /\ Cardinality(usedIds) = 2

\* the roles of the records a session has in the history, oldest first
RolesOf(log, redis_log, session_id) ==
    LET records == IF redis_connected
                   THEN IF session_id \in DOMAIN redis_log THEN redis_log[session_id] ELSE <<>>
                   ELSE SelectSeq(log, LAMBDA msg : msg.session_id = session_id)
    IN  [j \in 1..Len(records) |-> records[j].role]

\* this step is a chat turn that returned a response
CompletesTurn == turns' = turns + 1 /\ ~resp'.raised

\* the roles this step appended to the history of the turn's session
AppendedRoles ==
    LET old == RolesOf(CONVERSATION_HISTORY_LOG, redis_history, resp'.session_id)
        new == RolesOf(CONVERSATION_HISTORY_LOG', redis_history', resp'.session_id)
    IN  IF Len(new) >= Len(old) /\ SubSeq(new, 1, Len(old)) = old
        THEN SubSeq(new, Len(old) + 1, Len(new))
        ELSE <<"rewritten">>

\* C18: every completed turn appends exactly one user record and then exactly one
\* assistant record to its session's history, whichever branch handled the turn.
C18_OneUserOneAssistantRecord ==
    [][CompletesTurn => AppendedRoles = <<"user", "assistant">>]_vars

\* the same for the turns a heuristic answers without the LLM collaborator
HeuristicTurnsLogOnePair ==
    [][(CompletesTurn /\ resp'.llm = NoLLM) => AppendedRoles = <<"user", "assistant">>]_vars

\* what every completed turn of the LLM collaborator appends
DelegatedTurnsLogTwoPairs ==
    [][(CompletesTurn /\ resp'.llm # NoLLM)
        => AppendedRoles = <<"user", "user", "assistant", "assistant">>]_vars

\* this step is a chat turn that raised instead of returning a response
RaisesInTurn == turns' = turns + 1 /\ resp'.raised

\* C19: a turn that raises after its preference merge and before it returns leaves the
\* stored preferences, state and last-shown list of every session as they were before
\* the turn: the store is written only at the end of a completed turn.
C19_RaisedTurnLeavesStoreUntouched ==
    [][RaisesInTurn =>
        \A session_id \in DOMAIN Store(World) :
            /\ session_id \in DOMAIN Store(World)'
            /\ Store(World)'[session_id] = Store(World)[session_id]]_vars

----------------------------------------------------------------------------
(* Two deployments in lockstep: the same requests sent to a service on the in-memory
   fallback (SESSIONS_STORE, CONVERSATION_HISTORY_LOG) and to one on Redis
   (redis_sessions, redis_history).  redis_connected tells which of the two serves
   next; the run stops at the first turn after which the two stores differ. *)

\* the world of the deployment without Redis
FallbackWorld == [S |-> SESSIONS_STORE, R |-> EmptyDict,
                  H |-> CONVERSATION_HISTORY_LOG, RH |-> EmptyDict]

\* the world of the deployment with Redis: its own SESSIONS_STORE stays empty
CacheWorld == [S |-> EmptyDict, R |-> redis_sessions, H |-> <<>>, RH |-> redis_history]

InitBackends ==
    /\ redis_connected = FALSE
    /\ rag_available \in BOOLEAN
    /\ SESSIONS_STORE = EmptyDict
    /\ redis_sessions = EmptyDict
    /\ CONVERSATION_HISTORY_LOG = <<>>
    /\ redis_history = EmptyDict
    /\ usedIds = {}
    /\ turns = 0
    /\ resp = [kind |-> "none"]
    /\ pure = PureIdle

\* the answers the collaborators give to a turn of this branch, were they asked
LLMChoices(branch) == IF branch \in {"adjust", "llm"} THEN LLMAnswers ELSE {NoLLM}

RagChoicesFor(branch, llm) ==
    IF branch = "broad"
       \/ (branch \in {"adjust", "llm"} /\ ValidatesAsLLMStructuredOutput(llm)
           /\ llm.next_action = "recommend_products")
    THEN RagChoices ELSE {NoRag}

\* the fallback deployment's answer r to a request becomes its state
ApplyOnFallback(r, in_session_id, message, llm, rag) ==
    /\ SESSIONS_STORE' = r.w.S
    /\ CONVERSATION_HISTORY_LOG' = r.w.H
    /\ usedIds' = r.used
    /\ resp' = r.resp
    /\ pure' = [op |-> "pending", used |-> usedIds,
                session_id |-> in_session_id, message |-> message,
                llm |-> llm, rag |-> rag, fallback |-> r.resp]
    /\ turns' = turns + 1
    /\ redis_connected' = TRUE
    /\ UNCHANGED <<rag_available, redis_sessions, redis_history>>

\* POST /chat served by the deployment on the in-memory fallback
ChatOnFallback ==
    \E in_session_id \in ClientIds, message \in Messages :
        /\ ~redis_connected
        /\ pure.op \in {"idle", "compared"}
        /\ SESSIONS_STORE = redis_sessions
        /\ CanServe(in_session_id)
        /\ \E llm \in LLMChoices(BranchOf(in_session_id, message)) :
              \E rag \in RagChoicesFor(BranchOf(in_session_id, message), llm) :
                 ApplyOnFallback(
                    ChatEndpoint(FallbackWorld, usedIds, in_session_id, message, llm, rag),
                    in_session_id, message, llm, rag)

\* the Redis deployment's answer r to the same request becomes its state
ApplyOnCache(r) ==
    /\ redis_sessions' = r.w.R
    /\ redis_history' = r.w.RH
    /\ resp' = r.resp
    /\ pure' = [op |-> "compared", fallback |-> pure.fallback, cache |-> r.resp]
    /\ redis_connected' = FALSE
    /\ UNCHANGED <<rag_available, SESSIONS_STORE, CONVERSATION_HISTORY_LOG, usedIds, turns>>

\* the same request served by the deployment on Redis
ChatOnCache ==
    /\ redis_connected
    /\ pure.op = "pending"
    /\ ApplyOnCache(ChatEndpoint(CacheWorld, pure.used, pure.session_id, pure.message,
                                 pure.llm, pure.rag))

NextBackends ==
    \/ ChatOnFallback
    \/ ChatOnCache

SpecBackends == InitBackends /\ [][NextBackends]_vars

\* what a client sees of a turn
Observable(r) ==
    [raised |-> r.raised, session_id |-> r.session_id, reply |-> r.reply,
     products |-> r.products, current_state |-> r.current_state,
     next_action_suggestion |-> r.next_action_suggestion,
     end_conversation |-> r.end_conversation]

\* C20: for every sequence of turns the two backends give the same responses (session
\* id, reply, products, state, next action, end_conversation) and hold the same
\* session contents; no turn returns on one backend and raises on the other.
C20_BackendEquivalence ==
    pure.op = "compared" =>
        /\ Observable(pure.fallback) = Observable(pure.cache)
        /\ SESSIONS_STORE = redis_sessions

\* the same for the turns in which a product was found or no product was searched
BackendsAgreeUnlessNothingFound ==
    (/\ pure.op = "compared"
     /\ ~((pure.fallback.tier1_invoked \/ pure.fallback.tier2_invoked)
          /\ pure.fallback.tier = "none")) =>
        /\ Observable(pure.fallback) = Observable(pure.cache)
        /\ SESSIONS_STORE = redis_sessions

----------------------------------------------------------------------------
(* Several sessions served in any order: three requests, each for any session the
   service has handed out or for a new one, and resets in between *)

MaxIsolationTurns == 3

IsolationMessages == {m_show_me_all_rings, m_just_bracelets, m_free_text, m_adjust}

IsolationLLMAnswers ==
    {LLMApiError,
     LLMPayload(Extracted(x_gold_2000), "ready_for_recommendation", "recommend_products", "high")}

IsolationRagChoices == IF rag_available THEN {RagOk(sim_mixed)} ELSE {NoRag}

\* main.py: get_recent_conversation_history
GetRecentConversationHistory(w, session_id, limit) ==
    LET messages ==
            IF redis_connected
            THEN IF session_id \in DOMAIN w.RH THEN w.RH[session_id] ELSE <<>>
            ELSE SelectSeq(w.H, LAMBDA msg : msg.session_id = session_id)
        first == IF Len(messages) > limit THEN Len(messages) - limit + 1 ELSE 1
    IN  [j \in 1..(Len(messages) - first + 1) |->
            [role |-> messages[first + j - 1].role,
             content |-> messages[first + j - 1].content]]

\* POST /chat for any session, in any order
TurnOfAnySession ==
    \E in_session_id \in ClientIds, message \in IsolationMessages :
        /\ turns < MaxIsolationTurns
        /\ in_session_id \in DOMAIN Store(World) \/ SessionIds \ usedIds # {}
        /\ \E llm \in (IF BranchOf(in_session_id, message) \in {"adjust", "llm"}
                       THEN IsolationLLMAnswers ELSE {NoLLM}) :
              \E rag \in IsolationRagChoices :
                 Apply(ChatEndpoint(World, usedIds, in_session_id, message, llm, rag))

\* the store after /new-session
ApplyReset(r, session_id) ==
    /\ SESSIONS_STORE' = r.w.S
    /\ redis_sessions' = r.w.R
    /\ CONVERSATION_HISTORY_LOG' = r.w.H
    /\ redis_history' = r.w.RH
    /\ resp' = [kind |-> "new_session", session_id |-> session_id, status |-> r.status]
    /\ UNCHANGED <<redis_connected, rag_available, usedIds, turns, pure>>

\* POST /new-session for any session
ResetOfAnySession ==
    \E session_id \in usedIds :
        /\ resp.kind = "chat"
        /\ ApplyReset(NewSessionEndpoint(World, session_id), session_id)

NextIsolation ==
    \/ TurnOfAnySession
    \/ ResetOfAnySession

SpecIsolation == Init /\ [][NextIsolation]_vars

\* everything the service holds about one session
HeldAbout(w, session_id) ==
    [memory |-> IF session_id \in DOMAIN w.S THEN <<w.S[session_id]>> ELSE <<>>,
     redis |-> IF session_id \in DOMAIN w.R THEN <<w.R[session_id]>> ELSE <<>>,
     log |-> SelectSeq(w.H, LAMBDA msg : msg.session_id = session_id),
     redis_log |-> IF session_id \in DOMAIN w.RH THEN w.RH[session_id] ELSE <<>>,
     recent |-> GetRecentConversationHistory(w, session_id, 5)]

\* C21: a turn or a reset for session A never changes the stored state, preferences,
\* last-shown products or history of another session B, nor what a read of B's recent
\* history returns.
C21_SessionIndependence ==
    [][resp'.kind \in {"chat", "new_session"} =>
        \A other \in SessionIds \ {resp'.session_id} :
            HeldAbout(World', other) = HeldAbout(World, other)]_vars

\* a third request was a turn of an existing session while another session holds
\* preferences and history of its own
C21_Witness ==
    /\ resp.kind = "chat"
    /\ turns = 3
    /\ ~resp.created
    /\ \E other \in DOMAIN Store(World) \ {resp.session_id} :
          /\ Store(World)[other]["preferences"] # EmptyPrefs
          /\ GetRecentConversationHistory(World, other, 5) # <<>>

----------------------------------------------------------------------------
(* Session continuity and reset *)

\* this step is a chat turn
ChatTurn == resp'.kind = "chat" /\ turns' = turns + 1

\* the turn names the slot: in its preference delta, or by clearing every slot
Mentions(r, key) == key \in DOMAIN r.merged \/ r.branch = "adjust"

\* C22: a turn sent with the id of an existing session returns that id, creates no
\* session and starts from the preferences earlier turns stored, and the slots it does
\* not mention keep their value; a turn sent with no id or an unknown id creates a
\* session under a fresh id, in state initial_greeting with every slot null.
C22_SessionContinuity ==
    [][ChatTurn =>
        IF resp'.in_session_id \in DOMAIN Store(World)
        THEN /\ resp'.session_id = resp'.in_session_id
             /\ ~resp'.created
             /\ usedIds' = usedIds
             /\ resp'.prefs_before = Store(World)[resp'.in_session_id]["preferences"]
             /\ \A key \in Slots :
                   ~Mentions(resp', key) =>
                       StoredPreferences'[key]
                         = Store(World)[resp'.in_session_id]["preferences"][key]
        ELSE /\ resp'.created
             /\ resp'.session_id \notin usedIds
             /\ resp'.session_id \in usedIds'
             /\ resp'.state_before = "initial_greeting"
             /\ resp'.prefs_before = EmptyPrefs]_vars

\* a second turn of a session whose category an earlier turn stored: the collaborator
\* names the metal only, and the category is still stored
C22_Witness ==
    /\ Answered
    /\ ~resp.created
    /\ resp.branch = "llm"
    /\ resp.prefs_before["category"] # None
    /\ "category" \notin DOMAIN resp.merged
    /\ "metal" \in DOMAIN resp.merged
    /\ StoredPreferences["category"] = resp.prefs_before["category"]
    /\ StoredPreferences["metal"] # None

\* this step is a call of /new-session that names a session id
ResetCall == resp'.kind = "new_session" /\ resp'.session_id # NoId

\* the service holds the session or records of it
Exists(w, session_id) ==
    \/ session_id \in DOMAIN Store(w)
    \/ GetRecentConversationHistory(w, session_id, 5) # <<>>

\* after the call the session and its history are gone
GoneAfterReset == ResetCall => ~Exists(World', resp'.session_id)

\* a turn sent with an id the store does not hold is served by a new session
OldIdGetsNewSession ==
    (ChatTurn /\ resp'.in_session_id # NoId /\ resp'.in_session_id \notin DOMAIN Store(World))
    => /\ resp'.session_id # resp'.in_session_id
       /\ resp'.created
       /\ resp'.state_before = "initial_greeting"
       /\ resp'.prefs_before = EmptyPrefs

\* C23: after /new-session for a session id the session and its history are gone from
\* the store; the call reports cleared when the session existed and not_found when it
\* did not; a later turn sent with the old id is served by a brand-new session with
\* another id, the initial state and no carried-over preferences.
C23_SessionReset ==
    [][/\ GoneAfterReset
       /\ ResetCall => resp'.status = IF Exists(World, resp'.session_id)
                                      THEN "cleared" ELSE "not_found"
       /\ OldIdGetsNewSession]_vars

\* the same, with the status left open for an id the store did not hold
ResetOfExistingSession ==
    [][/\ GoneAfterReset
       /\ (ResetCall /\ Exists(World, resp'.session_id)) => resp'.status = "cleared"
       /\ (ResetCall /\ resp'.status = "not_found") => ~Exists(World, resp'.session_id)
       /\ OldIdGetsNewSession]_vars

\* the same as C23 on Redis only
ResetOnRedis ==
    [][redis_connected =>
        /\ GoneAfterReset
        /\ ResetCall => resp'.status = IF Exists(World, resp'.session_id)
                                       THEN "cleared" ELSE "not_found"
        /\ OldIdGetsNewSession]_vars

----------------------------------------------------------------------------
(* Terminal states and the collaborator's proposals *)

\* C24: in every response, a returned or stored state of staff_handoff_requested or
\* conversation_ended comes with end_conversation true, and end_conversation true
\* comes with a returned and stored state that is one of those two.
C24_TerminalStatesEndConversation ==
    Answered =>
        /\ (resp.current_state \in TerminalStates \/ StoredState \in TerminalStates)
              => resp.end_conversation
        /\ resp.end_conversation
              => (resp.current_state \in TerminalStates /\ StoredState \in TerminalStates)

\* the collaborator answered with a JSON object that breaks the schema
SchemaViolation ==
    /\ Answered
    /\ resp.llm.kind = "payload"
    /\ \/ resp.llm.next_action \notin AllowedActions
       \/ resp.llm.confidence_score \notin AllowedScores

DelegatedWithoutProducts ==
    /\ Answered
    /\ resp.llm.kind = "payload"
    /\ ~resp.llm_error
    /\ resp.products = <<>>

\* C26: after a successful turn of the LLM collaborator that surfaces no product, the
\* state stored for the session, which the next turn reads back, is the state the
\* collaborator proposed in that turn.
C26_CollaboratorStateAdopted ==
    DelegatedWithoutProducts =>
        /\ StoredState = resp.llm.current_conversational_state
        /\ resp.current_state = resp.llm.current_conversational_state

\* the same for the turns that searched no product at all
StateAdoptedWithoutSearch ==
    (DelegatedWithoutProducts /\ ~Recommended) =>
        /\ StoredState = resp.llm.current_conversational_state
        /\ resp.current_state = resp.llm.current_conversational_state

\* the next turn starts from the stored state
NextTurnReadsStoredState ==
    [][(ChatTurn /\ resp'.in_session_id \in DOMAIN Store(World))
        => resp'.state_before
             = Store(World)[resp'.in_session_id]["current_conversational_state"]]_vars

----------------------------------------------------------------------------
(* Starting over *)

\* the turn carried the adjust-preferences control message
AdjustTurn == resp.kind = "chat" /\ resp.branch = "adjust"

\* the ids the session last showed
StoredLastShown == Store(World)[resp.session_id]["last_shown_product_ids"]

----------------------------------------------------------------------------
(* Tier 1 (rag_system.py, vector_db.py) as a pure function *)

\* similarity scores the vector index reports, in tenths
IndexSimilarities == {3, 5, 8}

Tier1Preferences ==
    {[k \in Slots |->
        CASE k = "category" -> p.category
          [] k = "budget_max" -> p.budget_max
          [] k = "occasion" -> p.occasion
          [] k = "recipient" -> p.recipient
          [] OTHER -> None] :
     p \in [category : {None, Str(s_ring)}, budget_max : {None, Num(600)},
            occasion : {None, Str(s_wedding)}, recipient : {None, Str(s_wife)}]}

\* a product as hybrid_search could hand it over, with or without a similarity_score
RawCandidates ==
    {[k \in {"index", "similarity_score"} |-> IF k = "index" THEN 1 ELSE 3],
     [k \in {"index", "similarity_score"} |-> IF k = "index" THEN 2 ELSE 5],
     [k \in {"index"} |-> 3],
     [k \in {"index", "similarity_score"} |-> IF k = "index" THEN 4 ELSE 8]}

RawCandidateLists == UNION {[1..n -> RawCandidates] : n \in 0..SmallTopN}

InitTier1 ==
    /\ redis_connected = FALSE
    /\ rag_available = TRUE
    /\ SESSIONS_STORE = EmptyDict
    /\ redis_sessions = EmptyDict
    /\ CONVERSATION_HISTORY_LOG = <<>>
    /\ redis_history = EmptyDict
    /\ usedIds = {}
    /\ turns = 0
    /\ resp = [kind |-> "none"]
    /\ \/ pure \in [op : {"input"}, preferences : Tier1Preferences,
                    similarity : [ProductIndexes -> IndexSimilarities],
                    top_k : {SmallTopN, TopN}]
       \/ pure \in [op : {"candidates"}, products : RawCandidateLists]

ApplyRetrieveRelevantProducts ==
    /\ pure.op = "input"
    /\ pure' = [op |-> "retrieve_relevant_products",
                preferences |-> pure.preferences, similarity |-> pure.similarity,
                top_k |-> pure.top_k,
                out |-> RetrieveRelevantProducts(pure.preferences, pure.similarity, pure.top_k)]
    /\ UNCHANGED chatVars

ApplyFilterBySimilarityThreshold ==
    /\ pure.op = "candidates"
    /\ pure' = [op |-> "filter", products |-> pure.products,
                out |-> FilterBySimilarityThreshold(pure.products)]
    /\ UNCHANGED chatVars

NextTier1 ==
    \/ ApplyRetrieveRelevantProducts
    \/ ApplyFilterBySimilarityThreshold

SpecTier1 == InitTier1 /\ [][NextTier1]_vars

Retrieved == pure.op = "retrieve_relevant_products"

Filtered == pure.op = "filter"

\* C28: every product retrieve_relevant_products returns has a similarity score of at
\* least min_similarity_threshold (0.5), at most top_k products are returned, and a
\* candidate without a similarity score counts as 0 and is discarded.
C28_Tier1SimilarityThreshold ==
    /\ Retrieved =>
          /\ Len(pure.out) <= pure.top_k
          /\ \A j \in 1..Len(pure.out) : pure.similarity[pure.out[j]] >= 5
    /\ Filtered =>
          /\ Len(pure.out) <= Len(pure.products)
          /\ \A j \in 1..Len(pure.out) :
                /\ "similarity_score" \in DOMAIN pure.out[j]
                /\ pure.out[j]["similarity_score"] >= 5

\* a candidate without a score and one below the threshold were discarded, one at the
\* threshold was kept
C28_Witness ==
    /\ Filtered
    /\ \E j \in 1..Len(pure.products) : "similarity_score" \notin DOMAIN pure.products[j]
    /\ \E j \in 1..Len(pure.products) : pure.products[j]["index"] = 2
    /\ Len(pure.out) = 1
    /\ pure.out[1]["similarity_score"] = 5

\* some product passed the where clause and was discarded for its similarity
Tier1Discards ==
    /\ Retrieved
    /\ pure.out # <<>>
    /\ Len(pure.out) < Len(SemanticSearch(pure.preferences, pure.similarity, pure.top_k))

\* the tags of a product that match the occasion and the recipient asked for
AttributeMatches(i) ==
    Cardinality(
        {k \in {"occasion", "recipient"} :
            /\ Truthy(pure.preferences[k])
            /\ pure.preferences[k].s
                 \in LowerAll(IF k = "occasion" THEN PRODUCT_CATALOG_DB[i].occasion_tags
                              ELSE PRODUCT_CATALOG_DB[i].recipient_tags)})

\* C29: the survivors of the threshold are returned in the order of the blended score
\* similarity * base_weight + attribute_match_bonus; whatever the weight and the
\* increments, of two survivors with the same similarity the one with no attribute
\* match does not come before the one with a match.
C29_Tier1BlendedRanking ==
    Retrieved =>
        \A a, b \in 1..Len(pure.out) :
            (/\ a < b
             /\ pure.similarity[pure.out[a]] = pure.similarity[pure.out[b]])
            => ~(AttributeMatches(pure.out[a]) = 0 /\ AttributeMatches(pure.out[b]) > 0)

\* what the code returns: the survivors in the order of their raw similarity
Tier1OrderedBySimilarityOnly ==
    Retrieved =>
        \A a, b \in 1..Len(pure.out) :
            a < b => pure.similarity[pure.out[a]] >= pure.similarity[pure.out[b]]

----------------------------------------------------------------------------
(* The recommendation audit trail (conversation_engine.py, database.py): the rows of
   the product_recommendations table are kept in pure.events.  Both endpoints serve:
   /chat of main_enhanced.py, which tracks what it recommends, and /chat of main.py *)

MaxAuditTurns == 2

\* database.py: DatabaseManager.track_recommendation adds one row
TrackRecommendation(events, session_id, product_id, similarity_score, confidence_level, recommendation_type) ==
    Append(events,
           [session_id |-> session_id, product_id |-> product_id,
            similarity_score |-> similarity_score, confidence_level |-> confidence_level,
            recommendation_type |-> recommendation_type])

\* conversation_engine.py: the loop of track_product_recommendation over the products
\* from the j-th on; a product is [index, similarity_score]
RECURSIVE TrackFrom(_, _, _, _, _)
TrackFrom(events, session_id, preferences, products, j) ==
    IF j > Len(products) THEN events
    ELSE TrackFrom(
            TrackRecommendation(events, session_id,
                PRODUCT_CATALOG_DB[products[j]["index"]].id,
                SimilarityScoreOf(products[j]),
                GetRecommendationConfidence(preferences, <<SimilarityScoreOf(products[j])>>),
                "enhanced"),
            session_id, preferences, products, j + 1)

\* conversation_engine.py: EnhancedConversationEngine.track_product_recommendation
TrackProductRecommendation(events, session_id, preferences, products) ==
    TrackFrom(events, session_id, preferences, products, 1)

\* main_enhanced.py: get_enhanced_product_recommendations
GetEnhancedProductRecommendations(preferences, similarity) ==
    FilterBySimilarityThreshold(Candidates(preferences, similarity, TopN))

AuditSimilarities == {[i \in ProductIndexes |-> 8], [i \in ProductIndexes |-> IF i = 1 THEN 3 ELSE 6]}

InitAudit ==
    /\ redis_connected = FALSE
    /\ rag_available \in BOOLEAN
    /\ SESSIONS_STORE = EmptyDict
    /\ redis_sessions = EmptyDict
    /\ CONVERSATION_HISTORY_LOG = <<>>
    /\ redis_history = EmptyDict
    /\ usedIds = {}
    /\ turns = 0
    /\ resp = [kind |-> "none"]
    /\ pure = [op |-> "audit", events |-> <<>>, turn |-> 0, surfaced |-> <<>>]

\* the table after a turn of main_enhanced.py that recommended `products'
ApplyEnhancedTurn(session_id, preferences, products) ==
    /\ pure' = [op |-> "audit",
                events |-> IF products # <<>>
                           THEN TrackProductRecommendation(pure.events, session_id,
                                                           preferences, products)
                           ELSE pure.events,
                turn |-> pure.turn + 1,
                surfaced |-> products]
    /\ UNCHANGED chatVars

\* main_enhanced.py: a turn of enhanced_chat_endpoint whose next action is recommend_products
EnhancedRecommendTurn ==
    \E session_id \in SessionIds, preferences \in Tier1Preferences,
       similarity \in AuditSimilarities :
        /\ pure.turn < MaxAuditTurns
        /\ ApplyEnhancedTurn(session_id, preferences,
                             GetEnhancedProductRecommendations(preferences, similarity))

\* main.py: a broad-browse turn of chat_endpoint
LegacyRecommendTurn ==
    \E in_session_id \in ClientIds, message \in {m_show_me_all_rings, m_just_bracelets} :
        /\ CanServe(in_session_id)
        /\ \E rag \in IsolationRagChoices :
              Apply(ChatEndpoint(World, usedIds, in_session_id, message, NoLLM, rag))

NextAudit ==
    \/ EnhancedRecommendTurn
    \/ LegacyRecommendTurn

SpecAudit == InitAudit /\ [][NextAudit]_vars

\* the product ids this step surfaced to the user, by either endpoint
SurfacedIds ==
    IF pure'.turn = pure.turn + 1
    THEN [j \in 1..Len(pure'.surfaced) |-> PRODUCT_CATALOG_DB[pure'.surfaced[j]["index"]].id]
    ELSE IF turns' = turns + 1 /\ ~resp'.raised THEN ProductIds(resp'.products)
    ELSE <<>>

\* the events this step appended, <<"rewritten">> if it changed an existing one
AppendedEvents ==
    IF Len(pure'.events) >= Len(pure.events)
       /\ SubSeq(pure'.events, 1, Len(pure.events)) = pure.events
    THEN SubSeq(pure'.events, Len(pure.events) + 1, Len(pure'.events))
    ELSE <<"rewritten">>

\* C30: each turn that surfaces products P appends exactly one recommendation event
\* per product of P, carrying a confidence level and the source tier, and no turn
\* updates or removes an existing event.
C30_AuditTrail ==
    [][/\ Len(AppendedEvents) = Len(SurfacedIds)
       /\ \A j \in 1..Len(AppendedEvents) :
             /\ AppendedEvents[j].product_id = SurfacedIds[j]
             /\ AppendedEvents[j].confidence_level \in AllowedScores
             /\ AppendedEvents[j].recommendation_type # ""]_vars

\* the same for the turns of main_enhanced.py alone
EnhancedTurnsAreAudited ==
    [][pure'.turn = pure.turn + 1 =>
        /\ Len(AppendedEvents) = Len(SurfacedIds)
        /\ \A j \in 1..Len(AppendedEvents) :
              /\ AppendedEvents[j].product_id = SurfacedIds[j]
              /\ AppendedEvents[j].similarity_score = pure'.surfaced[j]["similarity_score"]
              /\ AppendedEvents[j].confidence_level \in AllowedScores]_vars

\* no step of either endpoint updates or removes an event
EventsAreAppendOnly == [][AppendedEvents # <<"rewritten">>]_vars

----------------------------------------------------------------------------
(* The generic show-all flag *)

\* the preference map the turn handed to the recommender carries the flag as true
FlagPassed ==
    /\ GENERIC_FLAG \in DOMAIN resp.search_prefs
    /\ resp.search_prefs[GENERIC_FLAG] = Bool(TRUE)

\* C31: the preference map chat_endpoint passes to the recommender after a
\* broad-browse message has user_query_was_generic_show_all = true, and the flag is
\* not present in the map of a later turn that is not a broad browse.
C31_GenericFlagVisibleInTurn ==
    (resp.kind = "chat" /\ Recommended) =>
        IF resp.branch = "broad" THEN FlagPassed ELSE ~FlagPassed

\* what the code does: no turn hands the flag to the recommender, none stores it
FlagNeverPassed ==
    resp.kind = "chat" =>
        /\ ~FlagPassed
        /\ \A session_id \in DOMAIN Store(World) :
              GENERIC_FLAG \notin DOMAIN Store(World)[session_id]["preferences"]

----------------------------------------------------------------------------
(* The rule-based transition of the conversation engine as a pure function *)

k_staff == <<"s","t","a","f","f">>
k_help == <<"h","e","l","p">>
k_human == <<"h","u","m","a","n">>
k_agent == <<"a","g","e","n","t">>
k_show == <<"s","h","o","w">>
k_recommend == <<"r","e","c","o","m","m","e","n","d">>
k_suggest == <<"s","u","g","g","e","s","t">>
k_find == <<"f","i","n","d">>

\* conversation_engine.py: the keyword lists of determine_next_action
StaffKeywords == {k_staff, k_help, k_human, k_agent}
RecommendKeywords == {k_show, k_recommend, k_suggest, k_find}

\* conversation_engine.py: has_key_preferences
HasKeyPreferences(preferences) ==
    Cardinality({key \in {"category", "occasion", "recipient"} :
                    Truthy(Get(preferences, key))}) >= 1

\* a faulty rule order: the recommendation keywords are looked for first
DetermineRecommendFirst(preferences, user_message) ==
    IF \E keyword \in RecommendKeywords : Contains(Lower(user_message), keyword)
    THEN <<"recommend_products", "ready_for_recommendation">>
    ELSE IF \E keyword \in StaffKeywords : Contains(Lower(user_message), keyword)
    THEN <<"offer_staff_handoff", "staff_handoff_requested">>
    ELSE IF HasKeyPreferences(preferences)
    THEN <<"recommend_products", "ready_for_recommendation">>
    ELSE <<"ask_question", "gathering_preferences">>

\* conversation_engine.py: EnhancedConversationEngine.determine_next_action
DetermineNextAction(preferences, user_message) ==
    IF \E keyword \in StaffKeywords : Contains(Lower(user_message), keyword)
    THEN <<"offer_staff_handoff", "staff_handoff_requested">>
    ELSE IF \E keyword \in RecommendKeywords : Contains(Lower(user_message), keyword)
    THEN <<"recommend_products", "ready_for_recommendation">>
    ELSE IF HasKeyPreferences(preferences)
    THEN <<"recommend_products", "ready_for_recommendation">>
    ELSE <<"ask_question", "gathering_preferences">>

EngineMessages ==
    {<<"h","i">>, <<>>,
     <<"I"," ","n","e","e","d"," ","H","E","L","P">>,
     <<"s","h","o","w"," ","m","e"," ","t","h","e"," ","s","t","a","f","f">>,
     <<"a"," ","h","u","m","a","n",","," ","p","l","e","a","s","e">>,
     <<"f","i","n","d"," ","a","n"," ","a","g","e","n","t">>,
     <<"S","h","o","w"," ","r","i","n","g","s">>,
     <<"r","e","c","o","m","m","e","n","d"," ","o","n","e">>,
     <<"a","n","y"," ","s","u","g","g","e","s","t","i","o","n","s","?">>,
     <<"f","i","n","d"," ","i","t">>,
     <<"s","h","e","l","p","f","u","l">>}

\* context.preferences as update_preferences leaves it: a slot is null or holds a
\* non-blank value
EnginePreferences ==
    {[k \in Slots |->
        CASE k = "category" -> p.category
          [] k = "occasion" -> p.occasion
          [] k = "recipient" -> p.recipient
          [] k = "metal" -> p.metal
          [] OTHER -> None] :
     p \in [category : {None, Str(s_ring)}, occasion : {None, Str(s_wedding)},
            recipient : {None, Str(s_wife)}, metal : {None, Str(s_gold)}]}

InitEngine ==
    /\ redis_connected = FALSE
    /\ rag_available = FALSE
    /\ SESSIONS_STORE = EmptyDict
    /\ redis_sessions = EmptyDict
    /\ CONVERSATION_HISTORY_LOG = <<>>
    /\ redis_history = EmptyDict
    /\ usedIds = {}
    /\ turns = 0
    /\ resp = [kind |-> "none"]
    /\ pure \in [op : {"input"}, preferences : EnginePreferences,
                 user_message : EngineMessages]

ApplyDetermineNextAction ==
    /\ pure.op = "input"
    /\ pure' = [op |-> "determine_next_action", preferences |-> pure.preferences,
                user_message |-> pure.user_message,
                out |-> DetermineNextAction(pure.preferences, pure.user_message)]
    /\ UNCHANGED chatVars

NextEngine == ApplyDetermineNextAction

SpecEngine == InitEngine /\ [][NextEngine]_vars

Determined == pure.op = "determine_next_action"

\* the message, in lower case, contains one of the words
Says(words) == \E word \in words : Contains(Lower(pure.user_message), word)

\* C32: determine_next_action applies its rules in strict priority: a message
\* containing staff, help, human or agent gives (offer_staff_handoff,
\* staff_handoff_requested) whatever the preferences and the other keywords;
\* otherwise one containing show, recommend, suggest or find gives recommend_products;
\* otherwise recommend_products exactly when one of category, occasion, recipient is
\* non-null, and (ask_question, gathering_preferences) when all three are null.
C32_StrictPriority ==
    Determined =>
        IF Says({k_staff, k_help, k_human, k_agent})
        THEN pure.out = <<"offer_staff_handoff", "staff_handoff_requested">>
        ELSE IF Says({k_show, k_recommend, k_suggest, k_find})
        THEN pure.out[1] = "recommend_products"
        ELSE IF \E key \in {"category", "occasion", "recipient"} :
                    pure.preferences[key] # None
        THEN pure.out[1] = "recommend_products"
        ELSE pure.out = <<"ask_question", "gathering_preferences">>

\* a message with a staff word and a recommendation word, in a session with a category
C32_Witness ==
    /\ Determined
    /\ Says({k_staff})
    /\ Says({k_show})
    /\ pure.preferences["category"] # None
    /\ pure.out[1] = "offer_staff_handoff"

----------------------------------------------------------------------------
(* The snapshots of the turn records *)

\* the records a session has in the history, oldest first, without the session id
RecordsOf(log, redis_log, session_id) ==
    LET records == IF redis_connected
                   THEN IF session_id \in DOMAIN redis_log THEN redis_log[session_id] ELSE <<>>
                   ELSE SelectSeq(log, LAMBDA msg : msg.session_id = session_id)
    IN  [j \in 1..Len(records) |->
            [role |-> records[j].role, content |-> records[j].content,
             preferences_at_turn |-> records[j].preferences_at_turn]]

\* the history of the turn's session before and after this step
RecordsBefore == RecordsOf(CONVERSATION_HISTORY_LOG, redis_history, resp'.session_id)
RecordsAfter == RecordsOf(CONVERSATION_HISTORY_LOG', redis_history', resp'.session_id)

\* this step left every record the history already held as it was
KeepsRecords ==
    /\ Len(RecordsAfter) >= Len(RecordsBefore)
    /\ SubSeq(RecordsAfter, 1, Len(RecordsBefore)) = RecordsBefore

\* the positions of the records this step appended
AppendedPositions == (Len(RecordsBefore) + 1)..Len(RecordsAfter)

\* C33: every user record stores the session's preferences as they were before the
\* turn's extraction and merge, and no turn changes a record the history already holds.
C33_UserRecordSnapshotsBeforeMerge ==
    [][ChatTurn =>
        /\ KeepsRecords
        /\ \A j \in AppendedPositions :
              RecordsAfter[j].role = "user"
                => RecordsAfter[j].preferences_at_turn = resp'.prefs_before]_vars

\* what holds of the code: a turn changes no record the history already holds, and the
\* first record it appends is the user record with the preferences from before the turn
FirstUserRecordSnapshotsBeforeMerge ==
    [][ChatTurn =>
        /\ KeepsRecords
        /\ AppendedPositions # {}
        /\ RecordsAfter[Len(RecordsBefore) + 1].role = "user"
        /\ RecordsAfter[Len(RecordsBefore) + 1].preferences_at_turn = resp'.prefs_before]_vars

----------------------------------------------------------------------------
(* The frame of recommend_products *)

ScoredSearchReturned ==
    /\ pure.op = "recommend_products"
    /\ pure.out.tier = "tier2"
    /\ Len(pure.out.items) >= 2

----------------------------------------------------------------------------
(* The last-shown list *)

\* the last-shown list the turn's session held before this step, empty for a new session
LastShownBefore ==
    IF resp'.session_id \in DOMAIN Store(World)
    THEN Store(World)[resp'.session_id]["last_shown_product_ids"]
    ELSE <<>>

\* C35: after a turn that returns products the session's last-shown list holds the ids
\* of exactly those products, in order, and the stored state is the post-recommendation
\* feedback state unless it was refining_recommendation; a turn that returns no product
\* leaves the list as it was, except adjust-preferences, which empties it.
C35_LastShownTracksReturnedProducts ==
    [][(ChatTurn /\ ~resp'.raised) =>
        IF resp'.products # <<>>
        THEN /\ StoredLastShown' = ProductIds(resp'.products)
             /\ \/ StoredState' = "POST_RECOMMENDATION_FEEDBACK"
                \/ /\ StoredState' = "refining_recommendation"
                   /\ resp'.llm.kind = "payload"
                   /\ resp'.llm.current_conversational_state = "refining_recommendation"
        ELSE IF resp'.branch = "adjust"
        THEN StoredLastShown' = <<>>
        ELSE StoredLastShown' = LastShownBefore]_vars

\* a turn that returned products to a session that had been shown other products
C35_Witness ==
    /\ Answered
    /\ resp.products # <<>>
    /\ ~resp.created
    /\ turns = MaxTurns
    /\ StoredLastShown = ProductIds(resp.products)

----------------------------------------------------------------------------
(* The stored conversational state *)

\* conversation_engine.py: the values of ConversationState, and the feedback state
\* chat_endpoint stores after a recommendation
DefinedStates ==
    {"initial_greeting", "identifying_purpose", "collecting_product_type",
     "gathering_preferences", "ready_for_recommendation", "refining_recommendation",
     "staff_handoff_requested", "error_state", "conversation_ended",
     "POST_RECOMMENDATION_FEEDBACK"}

\* C36: the state stored for any session is a member of the defined state set,
\* whatever string the LLM collaborator returned as current_conversational_state.
C36_StoredStateIsDefined ==
    \A session_id \in DOMAIN Store(World) :
        Store(World)[session_id]["current_conversational_state"] \in DefinedStates

\* what holds of the code: a stored state outside the defined set is the string the
\* LLM collaborator returned in the turn that stored it, or was stored by an earlier turn
UndefinedStateComesFromLLM ==
    [][(ChatTurn /\ ~resp'.raised /\ StoredState' \notin DefinedStates) =>
        \/ /\ resp'.llm.kind = "payload"
           /\ resp'.llm.current_conversational_state = StoredState'
        \/ /\ resp'.session_id \in DOMAIN Store(World)
           /\ Store(World)[resp'.session_id]["current_conversational_state"] = StoredState']_vars

----------------------------------------------------------------------------
(* The heuristics that answer without the LLM collaborator *)

\* the last turn was answered by the greeting, staff-request or item-details heuristic
HeuristicTurn == Answered /\ resp.branch \in {"greeting", "staff", "item_details"}

\* the message of the last turn as chat_endpoint compares it
MessageLower == Lower(Strip(resp.message))

\* the product id the item-details heuristic reads from the message
ItemDetailsId == Strip(DropPrefix(MessageLower, p_item_details))

\* C37: the greeting, staff-request and item-details heuristics change no preference
\* slot and do not call the LLM collaborator; the greeting heuristic answers only in
\* state initial_greeting, the same message in another state goes to the LLM
\* collaborator; item-details stores refining_recommendation when the lookup finds the
\* product id and gathering_preferences when it does not.
C37_HeuristicsLeavePreferences ==
    /\ HeuristicTurn =>
          /\ StoredPreferences = resp.prefs_before
          /\ resp.llm = NoLLM
          /\ resp.branch = "greeting" => resp.state_before = "initial_greeting"
          /\ resp.branch = "item_details" =>
                StoredState = IF ProductFound(ItemDetailsId) THEN "refining_recommendation"
                              ELSE "gathering_preferences"
    /\ (Answered /\ MessageLower = m_hi_ai_assistant
            /\ resp.state_before # "initial_greeting") =>
          /\ resp.branch = "llm"
          /\ resp.llm # NoLLM

\* the greeting token sent to a session that has left initial_greeting with a stored
\* preference
C37_Witness ==
    /\ Answered
    /\ MessageLower = m_hi_ai_assistant
    /\ resp.state_before # "initial_greeting"
    /\ resp.branch = "llm"
    /\ \E key \in Slots : resp.prefs_before[key] # None

\* item-details found its product in a session that holds a preference
ItemDetailsFound ==
    /\ HeuristicTurn
    /\ resp.branch = "item_details"
    /\ ProductFound(ItemDetailsId)
    /\ \E key \in Slots : resp.prefs_before[key] # None

\* the lookup compares the lower-cased id with the catalog's ids as they are written:
\* a product whose id holds an upper-case letter is never found
UpperCaseIdIsNotFound ==
    (HeuristicTurn /\ resp.message = m_item_details_P3) =>
        StoredState = "gathering_preferences"

----------------------------------------------------------------------------
(* cache.py: RedisClient, the cache-backed session store *)

\* cache.py: set_session's default ttl of 3600 s and the 7200 s add_to_conversation_history
\* gives the history key, in units of 1800 s
SessionTtl == 2
HistoryTtl == 4

\* the clock stops here, and a history list is not appended to beyond this length
MaxClock == 4
MaxHistory == 2
MaxCacheIds == 1

CacheIds == 1..MaxCacheIds
HistoryLimits == 1..(MaxHistory + 1)

\* a key the server does not hold, and the expiry of a key that has none
NoKey == [kind |-> "nil"]
NoExpiry == MaxClock + HistoryTtl + 1

\* json.dumps / json.loads of one preference value
JsonValue(v) ==
    CASE v.t = "None" -> <<"null">>
      [] v.t = "str"  -> <<"string", v.s>>
      [] v.t = "num"  -> <<"number", v.n>>
      [] v.t = "bool" -> <<IF v.b THEN "true" ELSE "false">>

PyValue(j) ==
    CASE j[1] = "null"   -> None
      [] j[1] = "string" -> Str(j[2])
      [] j[1] = "number" -> Num(j[2])
      [] j[1] = "true"   -> Bool(TRUE)
      [] j[1] = "false"  -> Bool(FALSE)

\* a faulty parser: JSON null comes back as the string "null"
PyValueNullAsString(j) ==
    CASE j[1] = "null"   -> Str(<<"n","u","l","l">>)
      [] j[1] = "string" -> Str(j[2])
      [] j[1] = "number" -> Num(j[2])
      [] j[1] = "true"   -> Bool(TRUE)
      [] j[1] = "false"  -> Bool(FALSE)

\* cache.py: json.dumps(session_data): the state string and the id list are JSON as
\* they are, the preference values are encoded one by one
JsonDumps(session_data) ==
    [k \in DOMAIN session_data |->
        IF k = "preferences"
        THEN [slot \in DOMAIN session_data[k] |-> JsonValue(session_data[k][slot])]
        ELSE session_data[k]]

\* cache.py: json.loads(data)
JsonLoads(data) ==
    [k \in DOMAIN data |->
        IF k = "preferences"
        THEN [slot \in DOMAIN data[k] |-> PyValue(data[k][slot])]
        ELSE data[k]]

\* the server drops a key whose expiry has passed
LiveKey(entry, now) ==
    IF entry # NoKey /\ entry.expires_at <= now THEN NoKey ELSE entry

\* a faulty range: the first `limit' entries of the list
FirstEntries(items, limit) ==
    SubSeq(items, 1, IF Len(items) < limit THEN Len(items) ELSE limit)

\* redis: LRANGE key -limit -1 for a positive limit
LRangeLast(items, limit) ==
    SubSeq(items, IF Len(items) > limit THEN Len(items) - limit + 1 ELSE 1, Len(items))

\* cache.py: RedisClient.set_session; c is the client and server state, `raises' a
\* Redis error inside the try block
SetSession(c, session_id, session_data, raises) ==
    IF ~c.connected \/ raises THEN [c |-> c, out |-> FALSE]
    ELSE [c |-> [c EXCEPT !.sessions[session_id] =
                    [kind |-> "string", data |-> JsonDumps(session_data),
                     expires_at |-> c.now + SessionTtl]],
          out |-> TRUE]

\* cache.py: RedisClient.get_session; [found, data] stands for Optional[dict]
GetSession(c, session_id, raises) ==
    LET entry == LiveKey(c.sessions[session_id], c.now)
    IN  IF ~c.connected \/ raises \/ entry = NoKey
        THEN [c |-> c, out |-> [found |-> FALSE]]
        ELSE [c |-> c, out |-> [found |-> TRUE, data |-> JsonLoads(entry.data)]]

\* cache.py: RedisClient.delete_session: DEL of both keys, True when one was there
DeleteSession(c, session_id, raises) ==
    IF ~c.connected \/ raises THEN [c |-> c, out |-> FALSE]
    ELSE [c |-> [c EXCEPT !.sessions[session_id] = NoKey, !.history[session_id] = NoKey],
          out |-> \/ LiveKey(c.sessions[session_id], c.now) # NoKey
                  \/ LiveKey(c.history[session_id], c.now) # NoKey]

\* cache.py: RedisClient.add_to_conversation_history: RPUSH, then EXPIRE; `raises' is
\* "no", or the call that raised: after a failed EXPIRE the entry is in the list
AddToConversationHistory(c, session_id, role, content, raises) ==
    LET entry == LiveKey(c.history[session_id], c.now)
        message == [role |-> role, content |-> content]
        pushed == IF entry = NoKey
                  THEN [kind |-> "list", items |-> <<message>>, expires_at |-> NoExpiry]
                  ELSE [entry EXCEPT !.items = Append(@, message)]
    IN  IF ~c.connected \/ raises = "rpush" THEN [c |-> c, out |-> FALSE]
        ELSE IF raises = "expire"
        THEN [c |-> [c EXCEPT !.history[session_id] = pushed], out |-> FALSE]
        ELSE [c |-> [c EXCEPT !.history[session_id] =
                        [pushed EXCEPT !.expires_at = c.now + HistoryTtl]],
              out |-> TRUE]

\* cache.py: RedisClient.get_conversation_history
GetConversationHistory(c, session_id, limit, raises) ==
    LET entry == LiveKey(c.history[session_id], c.now)
    IN  IF ~c.connected \/ raises \/ entry = NoKey THEN [c |-> c, out |-> <<>>]
        ELSE [c |-> c, out |-> LRangeLast(entry.items, limit)]

\* the sessions put into the store
CacheSessionData ==
    {NewSessionData,
     Put(Put(Put(NewSessionData, "preferences", Put(EmptyPrefs, "category", Str(s_ring))),
             "last_shown_product_ids", << <<"p","1">> >>),
         "current_conversational_state", "POST_RECOMMENDATION_FEEDBACK")}

\* the store after construction, connected or not; `put' remembers the session last put
\* under an id, `gone' that it has expired or was deleted since, and `appended' that a
\* record was appended to its history after that
InitCache ==
    /\ redis_connected = FALSE
    /\ rag_available = FALSE
    /\ SESSIONS_STORE = EmptyDict
    /\ redis_sessions = EmptyDict
    /\ CONVERSATION_HISTORY_LOG = <<>>
    /\ redis_history = EmptyDict
    /\ usedIds = {}
    /\ turns = 0
    /\ resp = [kind |-> "none"]
    /\ \E connected \in BOOLEAN :
          pure = [op |-> "init", session_id |-> 0, limit |-> 0, raised |-> FALSE,
                  out |-> FALSE, before |-> NoKey,
                  c |-> [connected |-> connected, now |-> 0,
                         sessions |-> [id \in CacheIds |-> NoKey],
                         history |-> [id \in CacheIds |-> NoKey]],
                  put |-> [id \in CacheIds |-> NoKey],
                  gone |-> [id \in CacheIds |-> FALSE],
                  appended |-> [id \in CacheIds |-> FALSE]]

\* one call of the client: its result, the state it leaves, and the bookkeeping
ApplyCacheCall(op, session_id, limit, raised, r, put, gone, appended) ==
    /\ pure' = [op |-> op, session_id |-> session_id, limit |-> limit, raised |-> raised,
                out |-> r.out, before |-> LiveKey(pure.c.history[session_id], pure.c.now),
                c |-> r.c, put |-> put, gone |-> gone, appended |-> appended]
    /\ UNCHANGED chatVars

CacheSetSession ==
    \E session_id \in CacheIds, session_data \in CacheSessionData, raises \in BOOLEAN :
        LET r == SetSession(pure.c, session_id, session_data, raises)
        IN  ApplyCacheCall("set_session", session_id, 0, raises, r,
                IF r.out THEN [pure.put EXCEPT ![session_id] =
                                  [kind |-> "put", data |-> session_data]]
                ELSE pure.put,
                IF r.out THEN [pure.gone EXCEPT ![session_id] = FALSE] ELSE pure.gone,
                pure.appended)

CacheGetSession ==
    \E session_id \in CacheIds, raises \in BOOLEAN :
        ApplyCacheCall("get_session", session_id, 0, raises,
                       GetSession(pure.c, session_id, raises),
                       pure.put, pure.gone, pure.appended)

CacheDeleteSession ==
    \E session_id \in CacheIds, raises \in BOOLEAN :
        LET deleted == pure.c.connected /\ ~raises
        IN  ApplyCacheCall("delete_session", session_id, 0, raises,
                DeleteSession(pure.c, session_id, raises),
                IF deleted THEN [pure.put EXCEPT ![session_id] = NoKey] ELSE pure.put,
                IF deleted /\ pure.put[session_id] # NoKey
                THEN [pure.gone EXCEPT ![session_id] = TRUE] ELSE pure.gone,
                IF deleted THEN [pure.appended EXCEPT ![session_id] = FALSE]
                ELSE pure.appended)

CacheAddToConversationHistory ==
    \E session_id \in CacheIds, role \in {"user", "assistant"},
       raises \in {"no", "rpush", "expire"} :
        /\ LET entry == LiveKey(pure.c.history[session_id], pure.c.now)
           IN  IF entry = NoKey THEN TRUE ELSE Len(entry.items) < MaxHistory
        /\ ApplyCacheCall("add_to_conversation_history", session_id, 0, raises # "no",
                AddToConversationHistory(pure.c, session_id, role, "hello", raises),
                pure.put, pure.gone,
                IF pure.c.connected /\ raises # "rpush" /\ pure.gone[session_id]
                THEN [pure.appended EXCEPT ![session_id] = TRUE] ELSE pure.appended)

CacheGetConversationHistory ==
    \E session_id \in CacheIds, limit \in HistoryLimits, raises \in BOOLEAN :
        ApplyCacheCall("get_conversation_history", session_id, limit, raises,
                       GetConversationHistory(pure.c, session_id, limit, raises),
                       pure.put, pure.gone, pure.appended)

\* the session key of id expires when the clock moves on
ExpiresNow(id) ==
    IF pure.c.sessions[id] = NoKey \/ pure.put[id] = NoKey \/ pure.gone[id] THEN FALSE
    ELSE pure.c.sessions[id].expires_at = pure.c.now + 1

\* 1800 s pass; the sessions whose key expires are gone
CacheClockTick ==
    /\ pure.c.now < MaxClock
    /\ pure' = [pure EXCEPT
                  !.op = "tick", !.c.now = @ + 1,
                  !.gone = [id \in CacheIds |-> pure.gone[id] \/ ExpiresNow(id)],
                  !.appended = [id \in CacheIds |-> pure.appended[id] /\ ~ExpiresNow(id)]]
    /\ UNCHANGED chatVars

NextCache ==
    \/ CacheSetSession
    \/ CacheGetSession
    \/ CacheDeleteSession
    \/ CacheAddToConversationHistory
    \/ CacheGetConversationHistory
    \/ CacheClockTick

SpecCache == InitCache /\ [][NextCache]_vars

\* the last call went through to the server and back
CacheCallDone(op) == pure.op = op /\ pure.c.connected /\ ~pure.raised

\* the session the last call names was put, and has expired or was deleted since
SessionGone == pure.gone[pure.session_id]

\* get after put returns the session that was put, until it is gone
GetReturnsPut ==
    CacheCallDone("get_session") =>
        IF pure.put[pure.session_id] # NoKey /\ ~SessionGone
        THEN pure.out = [found |-> TRUE, data |-> pure.put[pure.session_id].data]
        ELSE pure.out = [found |-> FALSE]

\* delete removes the session and its history
DeleteRemovesBoth ==
    CacheCallDone("delete_session") =>
        /\ pure.c.sessions[pure.session_id] = NoKey
        /\ pure.c.history[pure.session_id] = NoKey

\* recent history is at most `limit' records, the last appended, in append order
HistoryIsMostRecent ==
    CacheCallDone("get_conversation_history") =>
        /\ Len(pure.out) <= pure.limit
        /\ pure.before # NoKey =>
              /\ Len(pure.out) = IF Len(pure.before.items) < pure.limit
                                 THEN Len(pure.before.items) ELSE pure.limit
              /\ \A j \in 1..Len(pure.out) :
                    pure.out[j] = pure.before.items[Len(pure.before.items) - Len(pure.out) + j]

\* a client that is not connected answers every call with its failure value and holds
\* nothing
DisconnectedFails ==
    ~pure.c.connected =>
        /\ pure.op \in {"set_session", "delete_session", "add_to_conversation_history"}
              => pure.out = FALSE
        /\ pure.op = "get_session" => pure.out = [found |-> FALSE]
        /\ pure.op = "get_conversation_history" => pure.out = <<>>
        /\ \A id \in CacheIds : pure.c.sessions[id] = NoKey /\ pure.c.history[id] = NoKey

\* once the session is gone its recent history is empty, until something is appended
GoneSessionHasNoHistory ==
    (CacheCallDone("get_conversation_history") /\ SessionGone
        /\ ~pure.appended[pure.session_id]) => pure.out = <<>>

\* C38: get after put returns the session put until the key expires or delete is
\* called, after which get returns none and the recent history is empty; delete removes
\* session and history; recent history is at most `limit' records, the most recent, in
\* append order; a client that is not connected returns its failure values.
C38_SessionStoreContract ==
    /\ GetReturnsPut
    /\ GoneSessionHasNoHistory
    /\ DeleteRemovesBoth
    /\ HistoryIsMostRecent
    /\ DisconnectedFails

\* what holds of the code: the contract without the empty history of an expired session
SessionStoreContractButExpiredHistory ==
    /\ GetReturnsPut
    /\ (CacheCallDone("get_conversation_history") /\ SessionGone
            /\ ~pure.appended[pure.session_id]
            /\ pure.put[pure.session_id] = NoKey) => pure.out = <<>>
    /\ DeleteRemovesBoth
    /\ HistoryIsMostRecent
    /\ DisconnectedFails

----------------------------------------------------------------------------
(* conversation_engine.py: the context of a session in the durable store *)

MaxDurableTurns == 2

\* the row of the session in the durable store: none yet, or its columns and messages
NoRow == [exists |-> FALSE]

\* conversation_engine.py: ConversationContext(session_id, user_id,
\*     preferences={key: None for key in self.preference_keys})
DefaultContext ==
    [current_state |-> "initial_greeting", preferences |-> EmptyPrefs,
     last_shown_products |-> <<>>]

\* conversation_engine.py: get_or_create_context; `raises' is an error of the durable
\* store inside the try block
GetOrCreateContext(db, raises) ==
    IF raises THEN [db |-> db, context |-> DefaultContext]
    ELSE IF db.exists
    THEN [db |-> db,
          context |-> [current_state |-> db.current_state, preferences |-> db.preferences,
                       last_shown_products |-> db.last_shown_product_ids]]
    ELSE [db |-> [exists |-> TRUE, current_state |-> "initial_greeting",
                  preferences |-> EmptyPrefs, last_shown_product_ids |-> <<>>,
                  messages |-> <<>>],
          context |-> DefaultContext]

\* conversation_engine.py: save_context (database.py: update_session)
SaveContext(db, context, raises) ==
    IF raises \/ ~db.exists THEN db
    ELSE [db EXCEPT !.current_state = context.current_state,
                    !.preferences = context.preferences,
                    !.last_shown_product_ids = context.last_shown_products]

\* conversation_engine.py: add_message_to_context (database.py: add_message)
AddMessageToContext(db, context, role, raises) ==
    IF raises \/ ~db.exists THEN db
    ELSE [db EXCEPT !.messages = Append(@, role)]

\* conversation_engine.py: update_preferences: the merge, then save_context
UpdatePreferences(db, context, new_preferences, raises) ==
    LET merged == [context EXCEPT
                     !.preferences = EngineMergePreferences(@, new_preferences)]
    IN  [db |-> SaveContext(db, merged, raises), context |-> merged]

\* main_enhanced.py: get_llm_structured_response when the LLM collaborator answered
EnhancedAnswered(db, extracted_prefs, raises) ==
    LET g == GetOrCreateContext(db, raises.load)
        db1 == AddMessageToContext(g.db, g.context, "user", raises.message)
        u == UpdatePreferences(db1, g.context, extracted_prefs, raises.update)
        db2 == AddMessageToContext(u.db, u.context, "assistant", raises.message)
    IN  SaveContext(db2, u.context, raises.save)

\* main_enhanced.py: get_llm_structured_response when the LLM call raised: the except
\* block loads the context again and saves it
EnhancedLLMError(db, raises) ==
    LET g == GetOrCreateContext(db, raises.load)
        db1 == AddMessageToContext(g.db, g.context, "user", raises.message)
        h == GetOrCreateContext(db1, raises.update)
        db2 == AddMessageToContext(h.db, h.context, "user", raises.message)
        db3 == AddMessageToContext(db2, h.context, "assistant", raises.message)
    IN  SaveContext(db3, h.context, raises.save)

\* the deltas the LLM collaborator extracts
x_clear_category == [k \in {"category"} |-> None]
DurableDeltas == {EmptyDict, x_ring, x_gold_2000, x_clear_category}

\* the errors of the durable store in one turn: of the load, of the message inserts, of
\* the save inside update_preferences (the second load when the LLM call raised), and of
\* the final save
DurableFaults == [load : BOOLEAN, message : BOOLEAN, update : BOOLEAN, save : BOOLEAN]

InitDurable ==
    /\ redis_connected = FALSE
    /\ rag_available = FALSE
    /\ SESSIONS_STORE = EmptyDict
    /\ redis_sessions = EmptyDict
    /\ CONVERSATION_HISTORY_LOG = <<>>
    /\ redis_history = EmptyDict
    /\ usedIds = {}
    /\ turns = 0
    /\ resp = [kind |-> "none"]
    /\ pure = [op |-> "init", db |-> NoRow, before |-> NoRow, delta |-> EmptyDict,
               raises |-> [load |-> FALSE, message |-> FALSE, update |-> FALSE,
                           save |-> FALSE],
               turn |-> 0]

ApplyDurableTurn(op, db, delta, raises) ==
    /\ pure' = [op |-> op, db |-> db, before |-> pure.db, delta |-> delta,
                raises |-> raises, turn |-> pure.turn + 1]
    /\ UNCHANGED chatVars

DurableTurnAnswered ==
    /\ pure.turn < MaxDurableTurns
    /\ \E extracted_prefs \in DurableDeltas, raises \in DurableFaults :
          ApplyDurableTurn("answered", EnhancedAnswered(pure.db, extracted_prefs, raises),
                           extracted_prefs, raises)

DurableTurnLLMError ==
    /\ pure.turn < MaxDurableTurns
    /\ \E raises \in DurableFaults :
          ApplyDurableTurn("llm_error", EnhancedLLMError(pure.db, raises), EmptyDict, raises)

NextDurable == DurableTurnAnswered \/ DurableTurnLLMError

SpecDurable == InitDurable /\ [][NextDurable]_vars

\* the last turn served a session the store already held
ExistingSessionTurn == pure.op \in {"answered", "llm_error"} /\ pure.before.exists

\* a load of the context failed in the last turn
LoadFailed == pure.raises.load \/ (pure.op = "llm_error" /\ pure.raises.update)

\* the slots the turn's delta did not change hold what they held before the turn
UnchangedSlotsKept ==
    \A key \in Slots :
        ~EngineAssignsSlot(pure.delta, key)
            => pure.db.preferences[key] = pure.before.preferences[key]

\* C39: a failure while loading an existing session never loses stored preferences:
\* the preferences written back still hold every slot value stored before the turn and
\* not changed by this turn's delta.
C39_LoadFailureKeepsPreferences ==
    (ExistingSessionTurn /\ LoadFailed) => UnchangedSlotsKept

\* what holds of the code: a turn whose loads succeeded keeps the unchanged slots
LoadedTurnKeepsPreferences ==
    (ExistingSessionTurn /\ ~LoadFailed) => UnchangedSlotsKept

\* what holds of the code: after a failed load, the save writes the default context
\* merged with the delta over the stored row
FailedLoadSavesDefaults ==
    (ExistingSessionTurn /\ pure.op = "answered" /\ pure.raises.load /\ ~pure.raises.save)
        => pure.db.preferences = EngineMergePreferences(EmptyPrefs, pure.delta)

====
